---- MODULE Spec2Model ----
(***************************************************************************)
(* A model of parts of the BAZINGA repository:                             *)
(*   - BazingaEncoder / BazingaDecoder (src/core/bazinga/bazinga_universal) *)
(*   - DodoSystem with its trackers and harmonics (src/core/dodo)           *)
(*   - BazingaConsciousness: the consciousness loop and converse()          *)
(*   - ErrorArrowLearner (src/core/healing/error_arrow)                     *)
(*   - SymbolicProcessor (src/core/symbolic/symbolic_processor)             *)
(*   - BazingaSymbolicConsciousness (bazinga_symbolic_consciousness)        *)
(*   - BazingaPatternManager (src/core/bazinga/pattern_manager)             *)
(*   - SecureStorage and StateManager (src/core/security/encryption)        *)
(* Python strings are sequences of one-character strings; Python ints are   *)
(* kept as canonical decimal digit strings where they come out of int(),    *)
(* because they are unbounded (int("618033988749895") is a legal result).   *)
(***************************************************************************)
EXTENDS Integers, Sequences, FiniteSets, TLC

VARIABLES
    job,        \* codec: the call being made (encode arguments or a string to decode)
    enc_ret,    \* codec: what encode_concept returned or raised
    dec_ret,    \* codec: what decode_sequence returned or raised
    sysA,       \* dodo: a DodoSystem object
    sysB,       \* dodo: a second DodoSystem object given the same calls with other inputs
    retA,       \* dodo: what the last call on sysA returned
    retB,       \* dodo: what the last call on sysB returned
    bz,         \* consciousness: the BazingaConsciousness object
    loop_pc,    \* consciousness: position of the consciousness_loop task
    main_pc,    \* consciousness: position of the main task
    ghost,      \* consciousness: observation only (append history, step counters)
    learner,    \* healing: the ErrorArrowLearner object
    learner_ret,\* healing: the last call on it and what it returned
    sym,        \* symbolic: the SymbolicProcessor, or the consciousness that owns one
    sym_ret,    \* symbolic: the last call on it and what it returned
    pm,         \* patterns: the BazingaPatternManager object
    pm_ret,     \* patterns: the last call on it and what it returned
    disk,       \* storage: the files under the storage directory
    sm,         \* storage: the StateManager of the current session
    sm_ret      \* storage: the last call and what it returned

codec_vars == <<job, enc_ret, dec_ret>>
dodo_vars == <<sysA, sysB, retA, retB>>
cons_vars == <<bz, loop_pc, main_pc, ghost>>
heal_vars == <<learner, learner_ret>>
sym_vars == <<sym, sym_ret>>
pat_vars == <<pm, pm_ret>>
store_vars == <<disk, sm, sm_ret>>
lib_vars == <<heal_vars, sym_vars, pat_vars, store_vars>>
vars == <<job, enc_ret, dec_ret, sysA, sysB, retA, retB, bz, loop_pc, main_pc, ghost,
          learner, learner_ret, sym, sym_ret, pm, pm_ret, disk, sm, sm_ret>>

(***************************************************************************)
(* Strings and numbers                                                     *)
(***************************************************************************)
Digits == <<"0", "1", "2", "3", "4", "5", "6", "7", "8", "9">>

IsDigit(c) == \E i \in 1..10 : Digits[i] = c

DigitVal(c) == (CHOOSE i \in 1..10 : Digits[i] = c) - 1

AllDigits(s) == \A i \in 1..Len(s) : IsDigit(s[i])

RECURSIVE NatToStr(_)
\* str(n) for n >= 0
NatToStr(n) == IF n < 10 THEN <<Digits[n + 1]>>
               ELSE NatToStr(n \div 10) \o <<Digits[(n % 10) + 1]>>

\* str(n) / f"{n}" for a Python int
IntToStr(n) == IF n < 0 THEN <<"-">> \o NatToStr(0 - n) ELSE NatToStr(n)

RECURSIVE StrToNat(_)
\* value of a short digit string
StrToNat(s) == IF Len(s) = 0 THEN 0
               ELSE StrToNat(SubSeq(s, 1, Len(s) - 1)) * 10 + DigitVal(s[Len(s)])

RECURSIVE StripZeros(_)
StripZeros(s) == IF Len(s) > 1 /\ s[1] = "0" THEN StripZeros(Tail(s)) ELSE s

RECURSIVE StripTrailingZeros(_)
StripTrailingZeros(s) == IF Len(s) > 0 /\ s[Len(s)] = "0"
                         THEN StripTrailingZeros(SubSeq(s, 1, Len(s) - 1)) ELSE s

\* Python values: an int, a float (canonical decimal ip.fp) or a str
PyIntOf(neg, mag) == [t |-> "int", neg |-> neg /\ mag # <<"0">>, ip |-> mag, fp |-> <<>>]
PyInt(n) == PyIntOf(n < 0, NatToStr(IF n < 0 THEN 0 - n ELSE n))
PyFloatOf(neg, ip, fp) == [t |-> "float", neg |-> neg, ip |-> ip, fp |-> fp]
PyStr(s) == [t |-> "str", neg |-> FALSE, ip |-> s, fp |-> <<>>]

\* f"{attr}": str() of an int, repr() of a float
Format(v) ==
    IF v.t = "int" THEN (IF v.neg THEN <<"-">> ELSE <<>>) \o v.ip
    ELSE IF v.t = "float"
         THEN (IF v.neg THEN <<"-">> ELSE <<>>) \o v.ip \o <<".">>
              \o (IF v.fp = <<>> THEN <<"0">> ELSE v.fp)
         ELSE v.ip

Unsigned(s) == IF Len(s) > 0 /\ s[1] \in {"-", "+"} THEN Tail(s) ELSE s
IsNeg(s) == Len(s) > 0 /\ s[1] = "-"

\* int(s) over the alphabet of the model (digits, sign, dot, letters):
\* an optional sign and at least one digit, else ValueError
int(s) ==
    LET u == Unsigned(s)
    IN IF Len(u) > 0 /\ AllDigits(u)
       THEN [ok |-> TRUE, v |-> PyIntOf(IsNeg(s), StripZeros(u))]
       ELSE [ok |-> FALSE, v |-> PyStr(s)]

DotAt(s) == IF \E i \in 1..Len(s) : s[i] = "."
            THEN CHOOSE i \in 1..Len(s) : s[i] = "." /\ \A j \in 1..(i - 1) : s[j] # "."
            ELSE 0

HasDot(s) == \E i \in 1..Len(s) : s[i] = "."

\* float(s) over the alphabet of the model: [sign]digits[.digits] with at
\* least one digit, else ValueError
float(s) ==
    LET u == Unsigned(s)
        d == DotAt(u)
        ip == IF d = 0 THEN u ELSE SubSeq(u, 1, d - 1)
        fp == IF d = 0 THEN <<>> ELSE SubSeq(u, d + 1, Len(u))
    IN IF AllDigits(ip) /\ AllDigits(fp) /\ Len(ip) + Len(fp) > 0
       THEN [ok |-> TRUE,
             v |-> PyFloatOf(IsNeg(s), StripZeros(IF ip = <<>> THEN <<"0">> ELSE ip),
                             StripTrailingZeros(fp))]
       ELSE [ok |-> FALSE, v |-> PyStr(s)]

RECURSIVE PadRight(_, _)
PadRight(s, n) == IF Len(s) >= n THEN SubSeq(s, 1, n) ELSE PadRight(s \o <<"0">>, n)

RECURSIVE split(_)
\* sequence.split('.')
split(s) ==
    LET d == DotAt(s)
    IN IF d = 0 THEN <<s>>
       ELSE <<SubSeq(s, 1, d - 1)>> \o split(SubSeq(s, d + 1, Len(s)))

RECURSIVE Join(_)
\* '.'.join(tokens)
Join(tokens) ==
    IF Len(tokens) = 0 THEN <<>>
    ELSE IF Len(tokens) = 1 THEN tokens[1]
    ELSE tokens[1] \o <<".">> \o Join(Tail(tokens))

StartsWith(s, p) == Len(s) >= Len(p) /\ SubSeq(s, 1, Len(p)) = p

RECURSIVE DigitRun(_, _)
\* how many digits stand at s[i], s[i+1], ...  (the greedy \d+ of re)
DigitRun(s, i) == IF i <= Len(s) /\ IsDigit(s[i]) THEN 1 + DigitRun(s, i + 1) ELSE 0

(***************************************************************************)
(* BazingaEncoder                                                          *)
(***************************************************************************)
SubsectionNames ==
    [k \in {<<"1">>, <<"2">>, <<"3">>, <<"4">>, <<"5">>, <<"6">>, <<"7">>, <<"8">>, <<"9">>} |->
       CASE k = <<"1">> -> <<"Main BAZINGA Project", "BAZINGA-INDEED Extended Project", "Integration Context">>
         [] k = <<"2">> -> <<"Top Recommended Domain Names", "Secondary Domain Options", "Budget Considerations">>
         [] k = <<"3">> -> <<"Key Elements & Significance", "Harmonic Framework", "Transformation Pairs">>
         [] k = <<"4">> -> <<"Time & Trust Dimensions", "Gravity & Consensus", "Symmetry & Invariance">>
         [] k = <<"5">> -> <<"Fundamental Dimensions", "System Models", "Implementation Goals">>
         [] k = <<"6">> -> <<"Unified Data Components", "Analysis Techniques", "System Structure">>
         [] k = <<"7">> -> <<"Golden Ratio", "Time Harmonic", "Base Frequency">>
         [] k = <<"8">> -> <<"Integration Flow", "Component Connections", "Data Flow Patterns">>
         [] k = <<"9">> -> <<"System Functionality", "Integration Results", "Future Expansion">>]

\* the default structure of _load_decoder_key
decoder_key ==
    LET SectionNames ==
            [k \in DOMAIN SubsectionNames |->
               CASE k = <<"1">> -> "Domain Analysis"
                 [] k = <<"2">> -> "Domain Name Analysis"
                 [] k = <<"3">> -> "DODO Visual Pattern Integration"
                 [] k = <<"4">> -> "Black Hole & Blockchain Parallels"
                 [] k = <<"5">> -> "DODO System Framework"
                 [] k = <<"6">> -> "Relationship Analysis Integration"
                 [] k = <<"7">> -> "Key Mathematical Constants"
                 [] k = <<"8">> -> "Implementation Patterns"
                 [] k = <<"9">> -> "Project Outcomes"]
    IN
    [k \in DOMAIN SectionNames |->
       [name |-> SectionNames[k],
        subsections |-> [s \in {<<"1">>, <<"2">>, <<"3">>} |->
                           [name |-> SubsectionNames[k][DigitVal(s[1])]]]]]

\* self.constants, each as the text an f-string gives it
golden_ratio_repr == <<"1", ".", "6", "1", "8", "0", "3", "3", "9", "8", "8", "7", "4", "9", "8", "9", "5">>
time_harmonic_repr == <<"1", ".", "3", "3", "3", "3", "3", "3">>
base_frequency_repr == <<"4", "3", "2">>

Raised(e) == [kind |-> "raise", exc |-> e]
Returned(s) == [kind |-> "return", s |-> s]

RECURSIVE AppendAttributes(_, _)
\* for attr in attributes: encoding += f".{attr}"
AppendAttributes(encoding, attributes) ==
    IF Len(attributes) = 0 THEN encoding
    ELSE AppendAttributes(encoding \o <<".">> \o Format(Head(attributes)), Tail(attributes))

\* encode_concept without the subsection test
encode_concept_any_subsection(section, subsection, attributes) ==
    LET section_str == IntToStr(section)
        subsection_str == IntToStr(subsection)
    IN IF section_str \notin DOMAIN decoder_key
       THEN Raised("ValueError")
       ELSE IF section = 7 /\ subsection = 1
       THEN Returned(<<"7", ".", "1", ".">> \o golden_ratio_repr)
       ELSE IF section = 7 /\ subsection = 2
       THEN Returned(<<"7", ".", "2", ".", "1", ".">> \o time_harmonic_repr)
       ELSE IF section = 7 /\ subsection = 3
       THEN Returned(<<"7", ".", "3", ".">> \o base_frequency_repr)
       ELSE Returned(AppendAttributes(section_str \o <<".">> \o subsection_str, attributes))

\* encode_concept whose test for section 7 never succeeds
encode_concept_no_special_case(section, subsection, attributes) ==
    LET section_str == IntToStr(section)
        subsection_str == IntToStr(subsection)
    IN IF section_str \notin DOMAIN decoder_key
       THEN Raised("ValueError")
       ELSE IF subsection_str \notin DOMAIN decoder_key[section_str].subsections
       THEN Raised("ValueError")
       ELSE Returned(AppendAttributes(section_str \o <<".">> \o subsection_str, attributes))

encode_concept(section, subsection, attributes) ==
    LET section_str == IntToStr(section)
        subsection_str == IntToStr(subsection)
    IN IF section_str \notin DOMAIN decoder_key
       THEN Raised("ValueError")
       ELSE IF subsection_str \notin DOMAIN decoder_key[section_str].subsections
       THEN Raised("ValueError")
       ELSE IF section = 7 /\ subsection = 1
       THEN Returned(<<"7", ".", "1", ".">> \o golden_ratio_repr)
       ELSE IF section = 7 /\ subsection = 2
       THEN Returned(<<"7", ".", "2", ".", "1", ".">> \o time_harmonic_repr)
       ELSE IF section = 7 /\ subsection = 3
       THEN Returned(<<"7", ".", "3", ".">> \o base_frequency_repr)
       ELSE Returned(AppendAttributes(section_str \o <<".">> \o subsection_str, attributes))

\* for i in range(i, max_terms): fibonacci.append(fibonacci[i-1] + fibonacci[i-2])
\* (the list is indexed from 1 here)
RECURSIVE fibonacci_loop(_, _, _)
fibonacci_loop(fibonacci, i, max_terms) ==
    IF i >= max_terms THEN fibonacci
    ELSE fibonacci_loop(Append(fibonacci, fibonacci[i] + fibonacci[i - 1]), i + 1, max_terms)

\* fibonacci[0] = 1 changes nothing: the list already begins with 1
encode_fibonacci_sequence(max_terms) ==
    LET fibonacci == fibonacci_loop(<<1, 1>>, 2, max_terms)
    IN AppendAttributes(<<"8", ".", "1">>, [k \in 1..Len(fibonacci) |-> PyInt(fibonacci[k])])

(***************************************************************************)
(* BazingaDecoder                                                          *)
(***************************************************************************)
None == [kind |-> "None"]

match_fibonacci(sequence) ==
    \* nums[i] == nums[i-1] + nums[i-2] for every i in range(2, len(nums))
    LET IsFibonacci(nums) ==
            \* numeric value of a small Python int
            LET IntVal(v) == IF v.neg THEN 0 - StrToNat(v.ip) ELSE StrToNat(v.ip)
            IN
            \A i \in 3..Len(nums) : IntVal(nums[i]) = IntVal(nums[i - 1]) + IntVal(nums[i - 2])
    IN
    LET parts == split(sequence)
        rest == SubSeq(parts, 3, Len(parts))
    IN IF Len(parts) < 4 THEN None
       ELSE IF \E i \in 1..Len(rest) : ~int(rest[i]).ok THEN Raised("ValueError")
       ELSE LET nums == [i \in 1..Len(rest) |-> int(rest[i]).v]
            IN IF ~IsFibonacci(nums) THEN None
               ELSE [kind |-> "return", type |-> "fibonacci", sequence |-> nums]

MatchConstant(parts, idx, minlen, target, tol, name) ==
    \* abs(value - target) < tol, target and tol in millionths; a value of 1000
    \* or more is far from every target of the decoder
    LET Near(v) ==
            IF Len(v.ip) > 3 THEN FALSE
            ELSE LET m == StrToNat(v.ip) * 1000000 + StrToNat(PadRight(v.fp, 6))
                     x == IF v.neg THEN 0 - m ELSE m
                     d == IF x >= target THEN x - target ELSE target - x
                 IN d < tol
    IN
    IF Len(parts) < minlen THEN None
    ELSE LET value == float(parts[idx])
         IN IF value.ok /\ Near(value.v)
            THEN [kind |-> "return", type |-> "mathematical_constant",
                  name |-> name, value |-> value.v]
            ELSE None

\* the loop over self.pattern_matchers, in the dictionary's order: the first
\* matcher that returns something (or raises) ends the loop
special_pattern(sequence) ==
    LET match_golden_ratio(text) ==
            MatchConstant(split(text), 3, 3, 1618034, 100, "Golden Ratio")
        match_time_harmonic(text) ==
            MatchConstant(split(text), 4, 4, 1333333, 100, "Time Harmonic Ratio")
        match_base_frequency(text) ==
            MatchConstant(split(text), 3, 3, 432000000, 100000, "Base Frequency")
    IN
    \* re.match(r"7\.3\.\d+", sequence)
    LET re_match_base_frequency(s) ==
            StartsWith(s, <<"7", ".", "3", ".">>) /\ DigitRun(s, 5) >= 1
    IN
    \* re.match(r"7\.2\.1\.\d+", sequence)
    LET re_match_time_harmonic(s) ==
            StartsWith(s, <<"7", ".", "2", ".", "1", ".">>) /\ DigitRun(s, 7) >= 1
    IN
    \* re.match(r"7\.1\.\d+\.\d+", sequence)
    LET re_match_golden_ratio(s) ==
            /\ StartsWith(s, <<"7", ".", "1", ".">>)
            /\ LET d == DigitRun(s, 5)
               IN d >= 1 /\ 5 + d <= Len(s) /\ s[5 + d] = "." /\ DigitRun(s, 5 + d + 1) >= 1
    IN
    \* re.match(r"8\.1\.\d+(\.\d+)+", sequence): anchored at the start only
    LET re_match_fibonacci(s) ==
            /\ StartsWith(s, <<"8", ".", "1", ".">>)
            /\ LET d == DigitRun(s, 5)
               IN d >= 1 /\ 5 + d <= Len(s) /\ s[5 + d] = "." /\ DigitRun(s, 5 + d + 1) >= 1
    IN
    LET fib == IF re_match_fibonacci(sequence) THEN match_fibonacci(sequence) ELSE None
        gold == IF re_match_golden_ratio(sequence) THEN match_golden_ratio(sequence) ELSE None
        time == IF re_match_time_harmonic(sequence) THEN match_time_harmonic(sequence) ELSE None
        base == IF re_match_base_frequency(sequence) THEN match_base_frequency(sequence) ELSE None
    IN IF fib # None THEN fib
       ELSE IF gold # None THEN gold
       ELSE IF time # None THEN time
       ELSE base

\* the coercion without its test for a decimal point
CoerceAlwaysFloat(a) == float(a)

\* float(a) if '.' in a else int(a)
Coerce(a) == IF HasDot(a) THEN float(a) ELSE int(a)

standard_decoding(sequence) ==
    LET parts == split(sequence)
        section == parts[1]
        subsection == parts[2]
        attributes == SubSeq(parts, 3, Len(parts))
    IN IF Len(parts) < 2 THEN Raised("ValueError")
       ELSE IF section \notin DOMAIN decoder_key
       THEN IF ~int(section).ok \/ ~int(subsection).ok
               \/ \E i \in 1..Len(attributes) : ~Coerce(attributes[i]).ok
            THEN Raised("ValueError")
            ELSE [kind |-> "return", type |-> "standard",
                  section |-> int(section).v,
                  subsection |-> int(subsection).v,
                  attributes |-> [i \in 1..Len(attributes) |-> Coerce(attributes[i]).v],
                  note |-> "Unknown section"]
       ELSE IF ~int(subsection).ok THEN Raised("ValueError")
       ELSE [kind |-> "return", type |-> "standard",
             section |-> int(section).v,
             section_name |-> decoder_key[section].name,
             subsection |-> int(subsection).v,
             subsection_name |->
                 IF subsection \in DOMAIN decoder_key[section].subsections
                 THEN decoder_key[section].subsections[subsection].name
                 ELSE "Subsection",
             \* try: float/int  except: keep the token as it is
             attributes |-> [i \in 1..Len(attributes) |-> Coerce(attributes[i]).v],
             raw |-> sequence]

decode_sequence(sequence) ==
    LET pattern_info == special_pattern(sequence)
    IN IF pattern_info # None THEN pattern_info ELSE standard_decoding(sequence)

(***************************************************************************)
(* Floats.  The trust level is an IEEE double moved by +0.1 / -0.1 and     *)
(* clamped to [0.0, 1.0]; from 0.5 that reaches exactly the 25 doubles     *)
(* below (by their repr, in increasing order).  A double is its position   *)
(* in the list.  Other floats are kept in thousandths.                     *)
(***************************************************************************)
Doubles ==
    << "0.0", "2.7755575615628914e-17", "1.3877787807814457e-16", "0.1",
       "0.10000000000000003", "0.10000000000000014", "0.2", "0.20000000000000004",
       "0.20000000000000015", "0.30000000000000004", "0.30000000000000016", "0.4",
       "0.40000000000000013", "0.5", "0.5000000000000001", "0.6",
       "0.6000000000000001", "0.7", "0.7000000000000001", "0.7999999999999999",
       "0.8", "0.8999999999999999", "0.9", "0.9999999999999999", "1.0" >>

D(repr) == CHOOSE i \in 1..Len(Doubles) : Doubles[i] = repr

\* the double in thousandths, rounded
Milli ==
    << 0, 0, 0, 100, 100, 100, 200, 200, 200, 300, 300, 400, 400, 500, 500, 600, 600,
       700, 700, 800, 800, 900, 900, 1000, 1000 >>

Abs(x) == IF x < 0 THEN 0 - x ELSE x

RECURSIVE SumSeq(_)
SumSeq(xs) == IF Len(xs) = 0 THEN 0 ELSE Head(xs) + SumSeq(Tail(xs))

(***************************************************************************)
(* HarmonicFramework.  A data dictionary is the sequence of its values;    *)
(* a value is a number (in thousandths), a string, or a list of values.    *)
(***************************************************************************)
Num(v) == [k |-> "num", v |-> v, items |-> <<>>]
Str == [k |-> "str", v |-> 0, items |-> <<>>]
List(items) == [k |-> "list", v |-> 0, items |-> items]

phi == 1618

RECURSIVE extract_numeric_values(_)
extract_numeric_values(data) ==
    IF Len(data) = 0 THEN <<>>
    ELSE LET item == Head(data)
             here == IF item.k = "num" THEN <<item.v>>
                     ELSE IF item.k = "list" THEN extract_numeric_values(item.items)
                     ELSE <<>>
         IN here \o extract_numeric_values(Tail(data))

RECURSIVE phi_distances(_)
\* 1 / (1 + abs(abs(values[i+1] / values[i]) - phi)) for every values[i] != 0
phi_distances(values) ==
    IF Len(values) < 2 THEN <<>>
    ELSE (IF values[1] # 0
          THEN LET ratio == (Abs(values[2]) * 1000) \div Abs(values[1])
                   distance == Abs(ratio - phi)
               IN <<1000000 \div (1000 + distance)>>
          ELSE <<>>) \o phi_distances(Tail(values))

\* HarmonicFramework.calculate: the framework's new base_frequency and the result
calculate(base_frequency, data) ==
    \* math.log(product of (1 + abs(v))) / len(values), left unevaluated
    LET calculate_resonance(values) ==
            [log_of_product |-> [i \in 1..Len(values) |-> 1000 + Abs(values[i])], over |-> Len(values)]
    IN
    LET calculate_phi_ratio(values) ==
            LET ds == phi_distances(values)
            IN IF Len(values) = 0 THEN 500
               ELSE IF Len(ds) > 0 THEN SumSeq(ds) \div Len(ds)
               ELSE 500
    IN
    LET values == extract_numeric_values(data)
        base == SumSeq(values) \div Len(values)
    IN IF Len(values) = 0
       THEN [base_frequency |-> base_frequency, result |-> [base |-> base_frequency]]
       ELSE [base_frequency |-> base,
             result |-> [base |-> base, first |-> base * 2, second |-> base * 3,
                         third |-> base * 4,
                         resonance |-> calculate_resonance(values),
                         phi_ratio |-> calculate_phi_ratio(values)]]

(***************************************************************************)
(* TrustTracker, TimeTracker, ProcessingState, DodoSystem                  *)
(***************************************************************************)
\* the Enum: member name |-> value
ProcessingState ==
    [TWO_D |-> "2D", PATTERN |-> "PATTERN", TRANSITION |-> "TRANSITION", COMPLEX |-> "COMPLEX"]

TrustTracker == [trust_level |-> D("0.5"), trust_history |-> <<>>]

\* a tracker that counts in exact tenths
update_trust_level_in_tenths(tracker, result) ==
    LET tenths == <<1, 4, 7, 10, 12, 14, 16, 18, 21, 23, 25>>
        t == Milli[tracker.trust_level] \div 100
        level == IF result.success THEN tenths[(IF t < 10 THEN t + 1 ELSE 10) + 1]
                 ELSE tenths[(IF t > 0 THEN t - 1 ELSE 0) + 1]
    IN [trust_level |-> level, trust_history |-> Append(tracker.trust_history, level)]

update_trust_level(tracker, result) ==
    \* max(0.0, x - 0.1)
    LET SubTenthClamped ==
            << 1, 1, 1, 1, 2, 3, 4, 5, 6, 8, 9, 10, 11, 12, 13, 14, 15, 16, 17, 18, 19, 20, 21, 22, 23 >>
    IN
    \* min(1.0, x + 0.1)
    LET AddTenthClamped ==
            << 4, 5, 6, 7, 8, 9, 10, 10, 11, 12, 13, 14, 15, 16, 17, 18, 19, 20, 21, 22, 23, 24, 25, 25, 25 >>
    IN
    LET level == IF result.success THEN AddTenthClamped[tracker.trust_level]
                 ELSE SubTenthClamped[tracker.trust_level]
    IN [trust_level |-> level, trust_history |-> Append(tracker.trust_history, level)]

TimeTracker == [time_points |-> <<>>, current_time |-> 0]

add_time_point(tracker, point_data) ==
    [time_points |-> Append(tracker.time_points, point_data),
     current_time |-> tracker.current_time + 1]

\* DodoSystem.__init__
DodoSystem ==
    [state |-> "TWO_D",
     harmonics |-> [base_frequency |-> 1000],
     time_tracker |-> TimeTracker,
     trust_tracker |-> TrustTracker,
     transformation_pairs |-> <<>>]

\* no transformation pair is ever added by these operations: "data" stays {}
process_2d(sys, data) ==
    LET h == calculate(sys.harmonics.base_frequency, data)
    IN [sys |-> [sys EXCEPT !.harmonics.base_frequency = h.base_frequency],
        result |-> [success |-> TRUE, mode |-> "2D", data |-> <<>>, harmonics |-> h.result]]

\* a pattern branch that hands its input back
process_pattern_echo(sys, data) ==
    [sys |-> sys, result |-> [success |-> TRUE, mode |-> "PATTERN", data |-> data]]

process_pattern(sys, data) ==
    [sys |-> sys, result |-> [success |-> TRUE, mode |-> "PATTERN"]]

process_input(sys, input_data) ==
    LET process_transition(system, data) ==
            [sys |-> system, result |-> [success |-> TRUE, mode |-> "TRANSITION"]]
        process_quantum(system, data) ==
            [sys |-> system, result |-> [success |-> TRUE, mode |-> "QUANTUM"]]
    IN
    \* result["trust_level"] = trust_level
    LET WithTrust(result, level) ==
            [k \in DOMAIN result \cup {"trust_level"} |->
                IF k = "trust_level" THEN level ELSE result[k]]
    IN
    LET s1 == [sys EXCEPT !.time_tracker =
                   add_time_point(@, [input |-> input_data, state |-> sys.state])]
        p == IF s1.state = "TWO_D" THEN process_2d(s1, input_data)
             ELSE IF s1.state = "PATTERN" THEN process_pattern(s1, input_data)
             ELSE IF s1.state = "TRANSITION" THEN process_transition(s1, input_data)
             ELSE process_quantum(s1, input_data)
        tt == update_trust_level(p.sys.trust_tracker, p.result)
    IN [sys |-> [p.sys EXCEPT !.trust_tracker = tt],
        result |-> WithTrust(p.result, tt.trust_level)]

change_state(sys, new_state) == [sys EXCEPT !.state = new_state]

(***************************************************************************)
(* BazingaConsciousness.  Patterns, messages and log lines are strings     *)
(* that no operation below reads a number from; they are left out, and     *)
(* with them the executor and the generator, which only handle patterns.   *)
(* datetime.now() is a logical clock that ticks at every reading.          *)
(***************************************************************************)
max_thoughts == 100

\* BazingaConsciousness.__init__
BazingaConsciousness ==
    LET ConsciousnessState ==
            [active |-> TRUE, processing_mode |-> "TWO_D", trust_level |-> D("0.5"),
             harmonic_resonance |-> 0, last_reflection |-> None]
    IN
    [dodo |-> DodoSystem,
     harmonics |-> [base_frequency |-> 1000],
     time_tracker |-> TimeTracker,
     trust_tracker |-> TrustTracker,
     state |-> ConsciousnessState,
     thoughts |-> <<>>,
     conversation_history |-> <<>>,
     now |-> 0]

Thought(b, source) ==
    [timestamp |-> b.now + 1,
     resonance |-> b.state.harmonic_resonance,
     trust |-> b.state.trust_level,
     state |-> b.state.processing_mode,
     source |-> source]

\* xs[-n:]
LastN(xs, n) == IF Len(xs) <= n THEN xs ELSE SubSeq(xs, Len(xs) - n + 1, Len(xs))

Ok(b) == [raised |-> FALSE, bz |-> b]
internal_reflection(b) ==
    IF Len(b.thoughts) > 0
    THEN LET recent_thoughts == LastN(b.thoughts, 5)
             avg_resonance ==
                 SumSeq([i \in 1..Len(recent_thoughts) |-> recent_thoughts[i].resonance])
                     \div Len(recent_thoughts)
         IN Ok([b EXCEPT !.state.last_reflection =
                    [kind |-> "reflection",
                     patterns_analyzed |-> Len(recent_thoughts),
                     average_resonance |-> avg_resonance,
                     state |-> b.state.processing_mode],
                  !.now = @ + 1])
    ELSE Ok(b)

\* self.dodo.change_state(ProcessingState.X); self.state.processing_mode = "X".
\* Naming a member the Enum does not have raises AttributeError before
\* anything is changed.
EvolveTo(b, member) ==
    LET Raise == [raised |-> TRUE, bz |-> b]
    IN
    IF member \notin DOMAIN ProcessingState THEN Raise
    ELSE Ok([b EXCEPT !.dodo = change_state(@, member), !.state.processing_mode = member])

\* the default branch naming a member the Enum does not have
evolve_state_bad_default(b) ==
    IF b.state.harmonic_resonance > 800 THEN EvolveTo(b, "QUANTUM")
    ELSE IF b.state.trust_level > D("0.7") THEN EvolveTo(b, "PATTERN")
    ELSE IF Len(b.thoughts) > 50 THEN EvolveTo(b, "TRANSITION")
    ELSE EvolveTo(b, "2D")

evolve_state(b) ==
    IF b.state.harmonic_resonance > 800 THEN EvolveTo(b, "QUANTUM")
    ELSE IF b.state.trust_level > D("0.7") THEN EvolveTo(b, "PATTERN")
    ELSE IF Len(b.thoughts) > 50 THEN EvolveTo(b, "TRANSITION")
    ELSE EvolveTo(b, "TWO_D")

check_resonance(b) ==
    IF Len(b.thoughts) >= 2
    THEN LET recent == LastN(b.thoughts, 2)
             h == calculate(b.harmonics.base_frequency,
                            << List(<<Str, Str>>),
                               List(<<Num(Milli[recent[1].trust]), Num(Milli[recent[2].trust])>>) >>)
         IN Ok([b EXCEPT !.harmonics.base_frequency = h.base_frequency,
                         !.state.harmonic_resonance =
                             IF "phi_ratio" \in DOMAIN h.result THEN h.result.phi_ratio ELSE 500])
    ELSE Ok(b)

\* the executor has learned nothing: internal_patterns stays as it is
self_modify(b) == Ok(b)

\* a limit that keeps the head of the list (thoughts[:max_thoughts])
LimitBufferKeepHead(thoughts) ==
    IF Len(thoughts) > max_thoughts THEN SubSeq(thoughts, 1, max_thoughts) ELSE thoughts

\* the "Limit thought buffer" step of _internal_monologue
LimitBuffer(thoughts) ==
    IF Len(thoughts) > max_thoughts THEN LastN(thoughts, max_thoughts) ELSE thoughts

internal_monologue(b) ==
    LET thought == Thought(b, "internal")
    IN Ok([b EXCEPT !.thoughts = LimitBuffer(Append(@, thought)), !.now = @ + 1])

converse(b) ==
    \* asdict(t) for the five last thoughts: the numbers in it are resonance and trust
    LET RecentThoughtsData ==
            LET recent == LastN(b.thoughts, 5)
            IN [i \in 1..Len(recent) |->
                   List(<<Str, Str, Num(recent[i].resonance), Num(Milli[recent[i].trust]),
                          Str, Str>>)]
    IN
    LET input_data ==
            << List(<<Str>>),
               List(<<List(RecentThoughtsData), Num(Milli[b.state.trust_level]), List(<<>>)>>),
               Str >>
        processed == process_input(b.dodo, input_data)
        tt == update_trust_level(b.trust_tracker, processed.result)
        b1 == [b EXCEPT !.dodo = processed.sys,
                        !.time_tracker = add_time_point(@, [timestamp |-> b.now + 1]),
                        !.trust_tracker = tt,
                        !.state.trust_level = tt.trust_level,
                        !.now = @ + 1]
        thought == Thought(b1, "external")
        b2 == [b1 EXCEPT !.thoughts = Append(@, thought), !.now = @ + 1]
    IN [b2 EXCEPT !.conversation_history =
                     Append(@, [timestamp |-> b2.now + 1,
                                state |-> b2.state.processing_mode,
                                trust |-> b2.state.trust_level]),
                  !.now = @ + 1]

shutdown(b) == [b EXCEPT !.state.active = FALSE]

(***************************************************************************)
(* Bounds                                                                  *)
(***************************************************************************)
MaxAttrs == 3        \* longest attribute list given to encode_concept
MaxTokens == 4       \* most dot-separated components of a string given to decode_sequence
MaxTerms == 6        \* largest max_terms given to encode_fibonacci_sequence
MaxCalls == 2        \* most process_input calls on one DodoSystem
MaxTrustCalls == 7   \* most process_input calls where the trust level is followed
MaxTrustUpdates == 2 \* most update_trust_level calls made on the tracker directly
MaxStateChanges == 1 \* most changes of state between those process_input calls
MaxIter == 101       \* most iterations of the consciousness loop
MaxConverse == 1     \* most converse() calls
MaxLiveIter == 3     \* most loop iterations where progress is checked
MaxLiveConverse == 2 \* most converse() calls where progress is checked
MaxFaultIter == 3    \* most loop iterations where steps may raise

SeqsUpTo(S, n) == UNION {[1..k -> S] : k \in 0..n}

NotCalled == [kind |-> "not_called"]

(***************************************************************************)
(* Encoder / decoder calls                                                 *)
(***************************************************************************)
Jobs ==
    LET EncSections == {0, 3, 7, 8, 10}
        EncSubsections == {0, 1, 2, 3, 4}
        AttrValues ==
            {PyInt(0 - 1), PyInt(1), PyInt(2), PyInt(3), PyFloatOf(FALSE, <<"1">>, <<"5">>)}
        Tokens ==
            { <<"1">>, <<"2">>, <<"3">>, <<"7">>, <<"8">>, <<"4", "3", "2">>,
              <<"2", "a">>, <<"-", "1">>, <<>> }
    IN
    {[op |-> "encode", section |-> sec, subsection |-> sub, attributes |-> attrs] :
        sec \in EncSections, sub \in EncSubsections, attrs \in SeqsUpTo(AttrValues, MaxAttrs)}
    \cup
    {[op |-> "decode", sequence |-> Join(toks)] : toks \in SeqsUpTo(Tokens, MaxTokens) \ {<<>>}}
    \cup
    {[op |-> "fibonacci", max_terms |-> max_terms] : max_terms \in (0 - 1)..MaxTerms}

\* encoder.encode_concept(section, subsection, attributes)
Encode ==
    /\ job.op = "encode"
    /\ enc_ret = NotCalled
    /\ enc_ret' = encode_concept(job.section, job.subsection, job.attributes)
    /\ UNCHANGED <<job, dec_ret, dodo_vars, cons_vars, lib_vars>>

\* decoder.decode_sequence(the string encode_concept returned)
DecodeEncoded ==
    /\ job.op = "encode"
    /\ enc_ret.kind = "return"
    /\ dec_ret = NotCalled
    /\ dec_ret' = decode_sequence(enc_ret.s)
    /\ UNCHANGED <<job, enc_ret, dodo_vars, cons_vars, lib_vars>>

\* decoder.decode_sequence(sequence)
Decode ==
    /\ job.op = "decode"
    /\ dec_ret = NotCalled
    /\ dec_ret' = decode_sequence(job.sequence)
    /\ UNCHANGED <<job, enc_ret, dodo_vars, cons_vars, lib_vars>>

\* encoder.encode_fibonacci_sequence(max_terms)
EncodeFibonacci ==
    /\ job.op = "fibonacci"
    /\ enc_ret = NotCalled
    /\ enc_ret' = Returned(encode_fibonacci_sequence(job.max_terms))
    /\ UNCHANGED <<job, dec_ret, dodo_vars, cons_vars, lib_vars>>

\* decoder.decode_sequence(the string encode_fibonacci_sequence returned)
DecodeFibonacci ==
    /\ job.op = "fibonacci"
    /\ enc_ret # NotCalled
    /\ dec_ret = NotCalled
    /\ dec_ret' = decode_sequence(enc_ret.s)
    /\ UNCHANGED <<job, enc_ret, dodo_vars, cons_vars, lib_vars>>

(***************************************************************************)
(* DodoSystem calls: sysA and sysB get the same calls, each its own input  *)
(***************************************************************************)
DodoInputs ==
    { <<>>,
      <<Num(2000), Num(3000)>>,
      <<Str, List(<<Num(1000), Num(5000)>>)>> }

ChangeState(new_state) ==
    /\ sysA' = change_state(sysA, new_state)
    /\ sysB' = change_state(sysB, new_state)
    /\ retA' = NotCalled
    /\ retB' = NotCalled
    /\ UNCHANGED <<codec_vars, cons_vars, lib_vars>>

ProcessInput(inA, inB, maxCalls) ==
    /\ sysA.time_tracker.current_time < maxCalls
    /\ LET a == process_input(sysA, inA)
           b == process_input(sysB, inB)
       IN /\ sysA' = a.sys
          /\ retA' = a.result
          /\ sysB' = b.sys
          /\ retB' = b.result
    /\ UNCHANGED <<codec_vars, cons_vars, lib_vars>>

(***************************************************************************)
(* The two asyncio tasks.  main_pc is "run" while the main task holds the  *)
(* thread and "sleep" while it is suspended in an await asyncio.sleep();   *)
(* the loop task holds the thread unless Suspended(loop_pc).               *)
(***************************************************************************)
\* a loop task that gives up the thread at every await
SuspendedAtEveryAwait(pc) ==
    pc \in {"none", "created", "sleep1", "sleep5", "done",
            "evolve", "resonance", "modify", "monologue"}

\* Where the loop task does not hold the thread: before it was created or
\* first run, in asyncio.sleep(1.0) / asyncio.sleep(5.0), after it ended.
\* The awaits of _internal_reflection() ... _internal_monologue() are calls
\* of coroutines that never suspend, so they are not among these.
Suspended(pc) == pc \in {"none", "created", "sleep1", "sleep5", "done"}

\* asyncio.create_task(bazinga.consciousness_loop())
CreateTask ==
    /\ main_pc = "run"
    /\ loop_pc = "none"
    /\ loop_pc' = "created"
    /\ ghost' = [ghost EXCEPT !.last = "create_task"]
    /\ UNCHANGED <<bz, main_pc, codec_vars, dodo_vars, lib_vars>>

\* the main task reaches an await asyncio.sleep(...)
MainSleep ==
    /\ main_pc = "run"
    /\ main_pc' = "sleep"
    /\ ghost' = [ghost EXCEPT !.last = "main_sleep"]
    /\ UNCHANGED <<bz, loop_pc, codec_vars, dodo_vars, lib_vars>>

\* the event loop resumes the main task
MainWake ==
    /\ main_pc = "sleep"
    /\ Suspended(loop_pc)
    /\ main_pc' = "run"
    /\ ghost' = [ghost EXCEPT !.last = "main_wake"]
    /\ UNCHANGED <<bz, loop_pc, codec_vars, dodo_vars, lib_vars>>

\* the event loop starts or resumes the loop task; it goes to the while test
LoopResume ==
    /\ main_pc \in {"sleep", "shutdown_sleep"}
    /\ loop_pc \in {"created", "sleep1", "sleep5"}
    /\ loop_pc' = "while"
    /\ ghost' = [ghost EXCEPT !.last = "loop_resume"]
    /\ UNCHANGED <<bz, main_pc, codec_vars, dodo_vars, lib_vars>>

\* while self.state.active:
LoopWhile(maxIter) ==
    /\ loop_pc = "while"
    /\ IF bz.state.active
       THEN /\ ghost.iterations < maxIter
            /\ loop_pc' = "reflection"
            /\ ghost' = [ghost EXCEPT !.iterations = @ + 1, !.last = "while",
                                      !.converses_seen = ghost.converses]
       ELSE /\ loop_pc' = "done"
            /\ ghost' = [ghost EXCEPT !.last = "loop_end"]
    /\ UNCHANGED <<bz, main_pc, codec_vars, dodo_vars, lib_vars>>

\* a loop without the try block: the exception ends the task
except_propagates == "done"

\* except Exception as e: logger.error(...); await asyncio.sleep(5.0)
except_Exception == "sleep5"

\* one awaited step of the try block; an exception goes to the handler
LoopStep ==
    LET StepOf(pc, b) ==
            CASE pc = "reflection" -> internal_reflection(b)
              [] pc = "evolve" -> evolve_state(b)
              [] pc = "resonance" -> check_resonance(b)
              [] pc = "modify" -> self_modify(b)
              [] pc = "monologue" -> internal_monologue(b)
    IN
    \* the body of the try block, in order
    LET NextPc(pc) ==
            CASE pc = "reflection" -> "evolve"
              [] pc = "evolve" -> "resonance"
              [] pc = "resonance" -> "modify"
              [] pc = "modify" -> "monologue"
              [] pc = "monologue" -> "sleep1"
    IN
    /\ loop_pc \in {"reflection", "evolve", "resonance", "modify", "monologue"}
    /\ LET r == StepOf(loop_pc, bz)
       IN /\ bz' = r.bz
          /\ loop_pc' = IF r.raised THEN except_Exception ELSE NextPc(loop_pc)
          /\ ghost' = [ghost EXCEPT
                 !.last = IF r.raised THEN "except" ELSE loop_pc,
                 !.history = IF loop_pc = "monologue" /\ ~r.raised
                             THEN Append(@, Thought(bz, "internal")) ELSE @,
                 !.dropped = IF loop_pc = "monologue" /\ ~r.raised
                             THEN Len(bz.thoughts) + 1 - Len(r.bz.thoughts) ELSE 0]
    /\ UNCHANGED <<main_pc, codec_vars, dodo_vars, lib_vars>>

\* await bazinga.converse(message): no await inside suspends
Converse(maxConv) ==
    /\ main_pc = "run"
    /\ ghost.converses < maxConv
    /\ bz' = converse(bz)
    /\ ghost' = [ghost EXCEPT !.converses = @ + 1, !.last = "converse", !.dropped = 0,
                              !.history = Append(@, bz'.thoughts[Len(bz'.thoughts)])]
    /\ UNCHANGED <<loop_pc, main_pc, codec_vars, dodo_vars, lib_vars>>

\* A step of the try block raises an Exception of its own accord (a failing
\* log handler, an overriding subclass, a member the Enum lacks): nothing of
\* the step is kept and the handler runs.
LoopFault ==
    /\ loop_pc \in {"reflection", "evolve", "resonance", "modify", "monologue"}
    /\ loop_pc' = except_Exception
    /\ ghost' = [ghost EXCEPT !.last = "except", !.dropped = 0]
    /\ UNCHANGED <<bz, main_pc, codec_vars, dodo_vars, lib_vars>>

\* await bazinga.shutdown(): clears active, then awaits asyncio.sleep(2)
Shutdown ==
    /\ main_pc = "run"
    /\ bz.state.active
    /\ bz' = shutdown(bz)
    /\ main_pc' = "shutdown_sleep"
    /\ ghost' = [ghost EXCEPT !.last = "shutdown", !.iterations_at_shutdown = ghost.iterations]
    /\ UNCHANGED <<loop_pc, codec_vars, dodo_vars, lib_vars>>

\* The two seconds of shutdown() are over and it returns.  A loop task that
\* was ready to run or in asyncio.sleep(1.0) when the two seconds began has
\* been resumed before (its deadline is earlier); one in asyncio.sleep(5.0)
\* may have up to five seconds left.
ShutdownReturns ==
    /\ main_pc = "shutdown_sleep"
    /\ loop_pc \in {"none", "sleep5", "done"}
    /\ main_pc' = "returned"
    /\ ghost' = [ghost EXCEPT !.last = "shutdown_returned"]
    /\ UNCHANGED <<bz, loop_pc, codec_vars, dodo_vars, lib_vars>>

\* loop_task.cancel() right after shutdown(): a task still sleeping is
\* cancelled in its sleep, a finished one is left as it is
Cancel ==
    /\ main_pc = "returned"
    /\ loop_pc # "none"
    /\ main_pc' = "ended"
    /\ loop_pc' = IF loop_pc = "done" THEN "done" ELSE "cancelled"
    /\ ghost' = [ghost EXCEPT !.last = "cancel"]
    /\ UNCHANGED <<bz, codec_vars, dodo_vars, lib_vars>>

(***************************************************************************)
(* Specifications                                                          *)
(***************************************************************************)
IdleCodec == job = [op |-> "none"] /\ enc_ret = NotCalled /\ dec_ret = NotCalled

IdleDodo == sysA = DodoSystem /\ sysB = DodoSystem /\ retA = NotCalled /\ retB = NotCalled

IdleCons ==
    /\ bz = BazingaConsciousness
    /\ loop_pc = "none"
    /\ main_pc = "run"
    /\ ghost = [history |-> <<>>, iterations |-> 0, converses |-> 0, converses_seen |-> 0,
                last |-> "init", dropped |-> 0, iterations_at_shutdown |-> 0]

IdleHeal == learner = NotCalled /\ learner_ret = NotCalled

IdleSym == sym = NotCalled /\ sym_ret = NotCalled

IdlePat == pm = NotCalled /\ pm_ret = NotCalled

IdleStore == disk = NotCalled /\ sm = NotCalled /\ sm_ret = NotCalled

IdleLib == IdleHeal /\ IdleSym /\ IdlePat /\ IdleStore

\* the encoder and the decoder, each on one call drawn from Jobs
InitCodec ==
    /\ job \in Jobs /\ enc_ret = NotCalled /\ dec_ret = NotCalled
    /\ IdleDodo /\ IdleCons /\ IdleLib

NextCodec == Encode \/ DecodeEncoded \/ Decode \/ EncodeFibonacci \/ DecodeFibonacci

SpecCodec == InitCodec /\ [][NextCodec]_vars

\* two fresh DodoSystems
InitDodo == IdleCodec /\ IdleDodo /\ IdleCons /\ IdleLib

NextDodo ==
    \/ \E new_state \in DOMAIN ProcessingState : ChangeState(new_state)
    \/ \E inA \in DodoInputs, inB \in DodoInputs : ProcessInput(inA, inB, MaxCalls)

SpecDodo == InitDodo /\ [][NextDodo]_vars

\* sysA.trust_tracker.update_trust_level({"success": success}), as
\* bazinga_explore_fixed.py calls it; sysB is used through process_input only
UpdateTrustLevel(success) ==
    /\ Len(sysA.trust_tracker.trust_history) - sysA.time_tracker.current_time < MaxTrustUpdates
    /\ sysA' = [sysA EXCEPT !.trust_tracker = update_trust_level(@, [success |-> success])]
    /\ retA' = [success |-> success, trust_level |-> sysA'.trust_tracker.trust_level]
    /\ UNCHANGED <<sysB, retB, codec_vars, cons_vars, lib_vars>>

\* two fresh DodoSystems given the same process_input calls, one of them
\* with updates of its trust tracker in between
NextTrust ==
    \* the changes of state between the calls made so far
    LET points == sysA.time_tracker.time_points
        changes == Cardinality({i \in 1..Len(points) :
                        points[i].state # (IF i < Len(points) THEN points[i + 1].state
                                           ELSE sysA.state)})
    IN
    \/ \E new_state \in DOMAIN ProcessingState :
          changes < MaxStateChanges /\ ChangeState(new_state)
    \/ ProcessInput(<<>>, <<Num(2000), Num(3000)>>, MaxTrustCalls)
    \/ \E success \in BOOLEAN : UpdateTrustLevel(success)

SpecTrust == InitDodo /\ [][NextTrust]_vars

\* a fresh BazingaConsciousness, the main task running
Init == IdleCodec /\ IdleDodo /\ IdleCons /\ IdleLib

Next ==
    \/ CreateTask
    \/ MainSleep
    \/ MainWake
    \/ LoopResume
    \/ LoopWhile(MaxIter)
    \/ LoopStep
    \/ Converse(MaxConverse)

Spec == Init /\ [][Next]_vars

\* The same with shutdown(), under the scheduling asyncio gives: a task that
\* holds the thread goes on to its next await; the test scripts' main task
\* reaches an await asyncio.sleep(); a task whose sleep is over is resumed
\* when the thread is free (the ready queue is first in, first out).
LoopRuns == LoopWhile(MaxLiveIter) \/ LoopStep

NextLive ==
    \/ CreateTask
    \/ MainSleep
    \/ MainWake
    \/ LoopResume
    \/ LoopRuns
    \/ Converse(MaxLiveConverse)
    \/ Shutdown
    \/ ShutdownReturns
    \/ Cancel

SpecLive ==
    /\ Init
    /\ [][NextLive]_vars
    /\ WF_vars(LoopRuns)
    /\ WF_vars(MainSleep)
    /\ SF_vars(LoopResume)

\* The loop with steps that may raise, under the same scheduling.
LoopRunsOrRaises == LoopWhile(MaxFaultIter) \/ LoopStep \/ LoopFault

NextFault ==
    \/ CreateTask
    \/ MainSleep
    \/ MainWake
    \/ LoopResume
    \/ LoopRunsOrRaises
    \/ Shutdown
    \/ ShutdownReturns
    \/ Cancel

SpecFault ==
    /\ Init
    /\ [][NextFault]_vars
    /\ WF_vars(LoopRunsOrRaises)
    /\ WF_vars(MainSleep)
    /\ SF_vars(LoopResume)

(***************************************************************************)
(* ErrorArrowLearner.  Coherence is in thousandths.  A state's history is   *)
(* the copy of state_history taken when it was made: the first `depth`     *)
(* entries of state_history, which is only ever appended to.  datetime.now  *)
(* is a logical clock whose unit is the phi-hour (3600 * PHI seconds);     *)
(* calls less than that apart read the same time.  Contents and            *)
(* descriptions are strings nothing is computed from.                      *)
(***************************************************************************)
StateType == [NORMAL |-> "normal", ERROR |-> "error", HEALED |-> "healed", SEED |-> "seed"]

RecursiveState(id, timestamp, state_type, depth, coherence, healed_from) ==
    [id |-> id, timestamp |-> timestamp, state_type |-> state_type, depth |-> depth,
     coherence |-> coherence, healed_from |-> healed_from]

\* 1 / PHI, in thousandths
learning_rate == 618

\* ErrorArrowLearner.__init__ with _init_seed
ErrorArrowLearner ==
    [state_history |-> <<RecursiveState(0, 0, StateType.SEED, 0, 1000, None)>>,
     error_count |-> 0,
     healed_count |-> 0,
     healing_patterns |-> 0,
     now |-> 0]

\* the numerator of _healing_score in millionths (the denominator is a constant)
healing_score(candidate, error) ==
    LET Min(a, b) == IF a <= b THEN a ELSE b
    IN
    \* math.exp(-time_diff / (3600 * PHI)) * PHI in millionths, time_diff in phi-hours
    LET RecencyTimesPhi(time_diff) ==
            LET table == <<1618034, 595241, 218977, 80557, 29635, 10902, 4011, 1475,
                           543, 200, 73, 27, 10>>
            IN IF time_diff < Len(table) THEN table[time_diff + 1] ELSE 0
    IN
    RecencyTimesPhi(error.timestamp - candidate.timestamp)
        + candidate.coherence * 1000
        + Min(candidate.depth, 100) * 6180

\* a search of the memory that also takes the SEED state
past_successes_with_seed(L, error_state) ==
    {i \in 1..error_state.depth :
        /\ L.state_history[i].state_type \in {StateType.NORMAL, StateType.HEALED, StateType.SEED}
        /\ L.state_history[i].coherence >= 500}

\* positions in error_state.history of the NORMAL and HEALED states with coherence >= 0.5
past_successes(L, error_state) ==
    {i \in 1..error_state.depth :
        /\ L.state_history[i].state_type \in {StateType.NORMAL, StateType.HEALED}
        /\ L.state_history[i].coherence >= 500}

\* max(past_successes, key=...): the first of the candidates with the highest score
best_healer(L, error_state) ==
    LET cands == past_successes(L, error_state)
        score(i) == healing_score(L.state_history[i], error_state)
        i == CHOOSE i \in cands :
                /\ \A j \in cands : score(j) <= score(i)
                /\ \A j \in cands : score(j) = score(i) => i <= j
    IN L.state_history[i]

attempt_healing(L, error_state) ==
    IF error_state.state_type # StateType.ERROR THEN [learner |-> L, ret |-> None]
    ELSE IF past_successes(L, error_state) = {} THEN [learner |-> L, ret |-> None]
    ELSE LET healer == best_healer(L, error_state)
             healed_state ==
                 RecursiveState(Len(L.state_history), L.now, StateType.HEALED,
                                Len(L.state_history),
                                (healer.coherence * learning_rate) \div 1000,
                                error_state.id)
         IN [learner |-> [L EXCEPT !.healed_count = @ + 1,
                                   !.state_history = Append(@, healed_state),
                                   !.healing_patterns = @ + 1],
             ret |-> healed_state]

add_state(L, state_type, coherence) ==
    LET state == RecursiveState(Len(L.state_history), L.now, state_type,
                                Len(L.state_history), coherence, None)
        L1 == [L EXCEPT !.state_history = Append(@, state)]
    IN IF state_type = StateType.ERROR
       THEN LET L2 == [L1 EXCEPT !.error_count = @ + 1]
                healed == attempt_healing(L2, state)
            IN IF healed.ret # None THEN healed ELSE [learner |-> L2, ret |-> state]
       ELSE [learner |-> L1, ret |-> state]

add_error(L) == add_state(L, StateType.ERROR, 0)

\* healed_count / error_count in thousandths
get_convergence(L) ==
    IF L.error_count = 0 THEN 1000 ELSE (L.healed_count * 1000) \div L.error_count

RECURSIVE learn_loop(_, _, _)
\* for content, is_error in sequence: ...
learn_loop(L, sequence, results) ==
    IF sequence = <<>> THEN [learner |-> L, results |-> results]
    ELSE LET is_error == Head(sequence)
             \* the rest of the loop, given what add_error or add_state returned
             rest(r) ==
                 LET state == r.ret
                 IN learn_loop(r.learner, Tail(sequence),
                        [results EXCEPT
                            !.errors = IF is_error THEN @ + 1 ELSE @,
                            !.processed = @ + 1,
                            !.states = Append(@, [id |-> state.id, type |-> state.state_type,
                                                  memory_depth |-> state.depth])])
         IN CHOOSE out \in {rest(r) : r \in {IF is_error THEN add_error(L)
                                             ELSE add_state(L, StateType.NORMAL, 700)}} : TRUE

learn_from_sequence(L, sequence) ==
    LET after_loop(done) ==
        LET self == done.learner
            results == done.results
            \* get_arrow_of_time(): the fields that are computed
            get_arrow_of_time ==
                LET recent_states == LastN(self.state_history, 10)
                    count(type) == Cardinality({i \in 1..Len(recent_states) :
                                                   recent_states[i].state_type = type})
                    recent_errors == count(StateType.ERROR)
                    recent_healed == count(StateType.HEALED)
                IN [total_states |-> Len(self.state_history),
                    error_count |-> self.error_count,
                    healed_count |-> self.healed_count,
                    convergence |-> get_convergence(self),
                    direction |-> IF recent_healed > recent_errors THEN "toward_harmony"
                                  ELSE IF recent_healed = recent_errors THEN "balanced"
                                  ELSE "toward_entropy"]
        IN [learner |-> self,
            ret |-> [processed |-> results.processed,
                     errors |-> results.errors,
                     healed |-> self.healed_count - (self.healed_count - results.errors),
                     states |-> results.states,
                     arrow |-> get_arrow_of_time]]
    IN CHOOSE out \in {after_loop(done) :
                          done \in {learn_loop(L, sequence, [processed |-> 0, errors |-> 0,
                                                             healed |-> 0, states |-> <<>>])}} : TRUE

MaxLearnerCalls == 3   \* most add_state / add_error calls on one learner
MaxHealed == 3         \* most healings where attempt_healing is called directly
MaxSequence == 3       \* longest sequence given to learn_from_sequence
MaxLearned == 5        \* most states learnt from sequences by one learner

LearnerCalls == Len(learner.state_history) - 1 - learner.healed_count

\* learner.add_state(content, state_type, description, coherence)
AddState(state_type, coherence, gap) ==
    /\ LearnerCalls < MaxLearnerCalls
    /\ LET r == add_state([learner EXCEPT !.now = @ + gap], state_type, coherence)
       IN /\ learner' = r.learner
          /\ learner_ret' = [op |-> "add_state", state |-> r.ret]
    /\ UNCHANGED <<codec_vars, dodo_vars, cons_vars, sym_vars, pat_vars, store_vars>>

\* learner.add_error(error_content)
AddError(gap) ==
    /\ LearnerCalls < MaxLearnerCalls
    /\ LET r == add_error([learner EXCEPT !.now = @ + gap])
       IN /\ learner' = r.learner
          /\ learner_ret' = [op |-> "add_error", state |-> r.ret]
    /\ UNCHANGED <<codec_vars, dodo_vars, cons_vars, sym_vars, pat_vars, store_vars>>

\* a fresh ErrorArrowLearner
InitHeal ==
    /\ learner = ErrorArrowLearner /\ learner_ret = NotCalled
    /\ IdleCodec /\ IdleDodo /\ IdleCons /\ IdleSym /\ IdlePat /\ IdleStore

NextHeal ==
    \/ \E state_type \in {StateType.NORMAL, StateType.HEALED},
          coherence \in {400, 700, 1000}, gap \in {0, 1} :
          AddState(state_type, coherence, gap)
    \/ \E gap \in {0, 1} : AddError(gap)

SpecHeal == InitHeal /\ [][NextHeal]_vars

\* learner.attempt_healing(learner.state_history[i]), right after the call
\* before
AttemptHealing(i) ==
    /\ learner.healed_count < MaxHealed
    /\ i \in 1..Len(learner.state_history)
    /\ LET r == attempt_healing(learner, learner.state_history[i])
       IN /\ learner' = r.learner
          /\ learner_ret' = [op |-> "attempt_healing", state |-> r.ret]
    /\ UNCHANGED <<codec_vars, dodo_vars, cons_vars, sym_vars, pat_vars, store_vars>>

NextConverge ==
    \/ NextHeal
    \/ \E i \in 1..Len(learner.state_history) : AttemptHealing(i)

SpecConverge == InitHeal /\ [][NextConverge]_vars

\* learner.learn_from_sequence(sequence); the pairs are their is_error flags
LearnFromSequence(sequence, gap) ==
    /\ LearnerCalls + Len(sequence) <= MaxLearned
    /\ LET r == learn_from_sequence([learner EXCEPT !.now = @ + gap], sequence)
       IN /\ learner' = r.learner
          /\ learner_ret' = [op |-> "learn_from_sequence", results |-> r.ret]
    /\ UNCHANGED <<codec_vars, dodo_vars, cons_vars, sym_vars, pat_vars, store_vars>>

\* the clock is read when a state is made: before an empty sequence no
\* time needs to pass
NextLearn ==
    \E sequence \in SeqsUpTo(BOOLEAN, MaxSequence) :
        \E gap \in (IF sequence = <<>> THEN {0} ELSE {0, 1}) :
            LearnFromSequence(sequence, gap)

SpecLearn == InitHeal /\ [][NextLearn]_vars

(***************************************************************************)
(* SymbolicProcessor.  A text is a sequence of characters; the characters  *)
(* of the SEED language are written by the meaning the symbol registry     *)
(* gives them: "shoonya" is the Devanagari zero, "observer" the dotted     *)
(* circle, "golden_ratio" phi, "omega_consciousness" Omega, "exchange" and *)
(* "couple" the two bridges, "right_arrow" and "left_arrow" the arrows.    *)
(* A resonance is in thousandths.                                          *)
(***************************************************************************)
\* the keys of _initialize_symbols
symbols ==
    {"void", "shoonya", "infinity", "golden_ratio", "fine_structure", "omega_consciousness",
     "wave_function", "integrate", "tensor", "center_operator", "radiate", "cycle", "progress",
     "descend", "ascend", "valid", "invalid", "exchange", "couple", "bidirectional",
     "observer", "center"}

RECURSIVE Filter(_, _)
Filter(seq, keep) ==
    IF seq = <<>> THEN <<>>
    ELSE (IF Head(seq) \in keep THEN <<Head(seq)>> ELSE <<>>) \o Filter(Tail(seq), keep)

\* the chars of the Symbol objects parse_sequence returns
parse_sequence(sequence) ==
    \* the character class [→←↔⇄⟷\s] of parse_sequence
    LET RemovedBeforeParsing == {"right_arrow", "left_arrow", "bidirectional", "exchange", "couple", " "}
    IN
    \* str.isalnum for the characters that are not in the registry
    LET isalnum(char) == char \in {"a", "b", "1"}
    IN
    LET clean == Filter(sequence, {sequence[i] : i \in 1..Len(sequence)} \ RemovedBeforeParsing)
    IN Filter(clean, {c \in {clean[i] : i \in 1..Len(clean)} : c \in symbols \/ isalnum(c)})

\* pattern_idx after the first k characters of seq
RECURSIVE pattern_idx(_, _, _)
pattern_idx(seq, pattern, k) ==
    IF k = 0 THEN 0
    ELSE LET idx == pattern_idx(seq, pattern, k - 1)
         IN IF idx < Len(pattern) /\ seq[k] = pattern[idx + 1] THEN idx + 1 ELSE idx

\* a check that wants the pattern as one contiguous run of seq
check_contiguous(seq, pattern) ==
    \E i \in 0..(Len(seq) - Len(pattern)) : SubSeq(seq, i + 1, i + Len(pattern)) = pattern

check_subsequence(seq, pattern) == pattern_idx(seq, pattern, Len(seq)) = Len(pattern)

Contains(seq, c) == \E i \in 1..Len(seq) : seq[i] = c

vac_order == <<"shoonya", "observer", "golden_ratio", "omega_consciousness">>

validate_vac_sequence(sequence) ==
    LET Reverse(seq) == [i \in 1..Len(seq) |-> seq[Len(seq) + 1 - i]]
    IN
    LET seq_chars == parse_sequence(sequence)
        is_bidirectional == Contains(sequence, "exchange") \/ Contains(sequence, "couple")
        vac_reverse == Reverse(vac_order)
        forward_valid == check_subsequence(seq_chars, vac_order)
        reverse_valid == check_subsequence(seq_chars, vac_reverse)
        verdict ==
            IF is_bidirectional /\ forward_valid /\ reverse_valid
            THEN [direction |-> "bidirectional", is_valid |-> TRUE, resonance |-> 1000]
            ELSE IF forward_valid
            THEN [direction |-> "forward", is_valid |-> TRUE, resonance |-> 809]
            ELSE IF reverse_valid
            THEN [direction |-> "reverse", is_valid |-> TRUE, resonance |-> 618]
            ELSE [direction |-> "invalid", is_valid |-> FALSE, resonance |-> 0]
    IN [void_state |-> IF Contains(seq_chars, "shoonya") THEN "shoonya" ELSE "void",
        awareness_state |-> IF Contains(seq_chars, "observer") THEN "observer" ELSE "golden_ratio",
        consciousness_state |-> IF Contains(seq_chars, "omega_consciousness")
                                THEN "omega_consciousness" ELSE "wave_function",
        is_valid |-> verdict.is_valid,
        direction |-> verdict.direction,
        resonance |-> verdict.resonance]

\* SymbolicProcessor.__init__: the 5D meaning loop state
SymbolicProcessor == [meaning_depth |-> 0, meaning_history |-> <<>>]

enter_meaning_loop(P, thought) ==
    \* a thought is its lower-cased words
    LET process_5d_thought(self, words) ==
            LET self_refs == {i \in 1..Len(words) :
                                 words[i] \in {"i", "me", "my", "self", "itself", "myself"}}
                recursion_depth == Len(self.meaning_history)
            IN IF recursion_depth > 137
               THEN [status |-> "limit_reached"]
               ELSE [self_references |-> Cardinality(self_refs),
                     recursion_depth |-> recursion_depth,
                     ouroboros_active |-> recursion_depth > 0]
    IN
    LET depth == P.meaning_depth + 1
        P1 == [P EXCEPT !.meaning_depth = depth,
                        !.meaning_history = Append(@, [depth |-> depth, thought |-> thought,
                                                       phi_phase |-> (depth * 1000000) \div phi])]
    IN [sym |-> P1,
        ret |-> [dimension |-> "5D", depth |-> P1.meaning_depth, thought |-> thought,
                 self_reference |-> process_5d_thought(P1, thought),
                 phi_phase |-> (P1.meaning_depth * 1000000) \div phi,
                 meaning_loop |-> "active", temporal_mode |-> "self-referential"]]

\* an exit that subtracts whatever the depth is
exit_meaning_loop_unguarded(P) ==
    LET depth == P.meaning_depth - 1
        n == Len(P.meaning_history)
    IN [sym |-> [meaning_depth |-> depth,
                 meaning_history |-> IF n > 0 THEN SubSeq(P.meaning_history, 1, n - 1) ELSE <<>>],
        ret |-> [action |-> "collapsed_to_4d", remaining_depth |-> depth,
                 insights_collapsed |-> IF n > 0 THEN <<P.meaning_history[n]>> ELSE <<>>,
                 temporal_mode |-> IF depth = 0 THEN "linear" ELSE "self-referential"]]

exit_meaning_loop(P) ==
    LET depth == IF P.meaning_depth > 0 THEN P.meaning_depth - 1 ELSE P.meaning_depth
        n == Len(P.meaning_history)
    IN [sym |-> [meaning_depth |-> depth,
                 meaning_history |-> IF n > 0 THEN SubSeq(P.meaning_history, 1, n - 1) ELSE <<>>],
        ret |-> [action |-> "collapsed_to_4d", remaining_depth |-> depth,
                 insights_collapsed |-> IF n > 0 THEN <<P.meaning_history[n]>> ELSE <<>>,
                 temporal_mode |-> IF depth = 0 THEN "linear" ELSE "self-referential"]]

MaxChunks == 5         \* most pieces a text given to validate_vac_sequence is made of
MaxMeaningDepth == 4   \* deepest nesting of the meaning loop

RECURSIVE Flatten(_)
Flatten(seqs) == IF seqs = <<>> THEN <<>> ELSE Head(seqs) \o Flatten(Tail(seqs))

\* processor.validate_vac_sequence(sequence) returns
ValidateVac ==
    /\ sym_ret # NotCalled
    /\ sym_ret.op = "validate_vac_sequence"
    /\ sym_ret.result = None
    /\ sym_ret' = [sym_ret EXCEPT !.result = validate_vac_sequence(sym_ret.sequence)]
    /\ UNCHANGED <<sym, codec_vars, dodo_vars, cons_vars, heal_vars, pat_vars, store_vars>>

\* processor.enter_meaning_loop(thought)
EnterMeaningLoop(thought) ==
    /\ sym.meaning_depth < MaxMeaningDepth
    /\ LET r == enter_meaning_loop(sym, thought)
       IN /\ sym' = r.sym
          /\ sym_ret' = [op |-> "enter_meaning_loop", result |-> r.ret]
    /\ UNCHANGED <<codec_vars, dodo_vars, cons_vars, heal_vars, pat_vars, store_vars>>

\* processor.exit_meaning_loop()
ExitMeaningLoop ==
    /\ LET r == exit_meaning_loop(sym)
       IN /\ sym' = r.sym
          /\ sym_ret' = [op |-> "exit_meaning_loop", result |-> r.ret]
    /\ UNCHANGED <<codec_vars, dodo_vars, cons_vars, heal_vars, pat_vars, store_vars>>

\* a fresh SymbolicProcessor
InitSym ==
    /\ sym = SymbolicProcessor /\ sym_ret = NotCalled
    /\ IdleCodec /\ IdleDodo /\ IdleCons /\ IdleHeal /\ IdlePat /\ IdleStore

\* a fresh SymbolicProcessor and a call of validate_vac_sequence on a text
InitVac ==
    LET Texts ==
            \* the halves of generate_vac_sequence('forward') and ('reverse'), the two
            \* bridges, and a letter
            LET Chunks ==
                    { <<"shoonya", "right_arrow", "observer">>,
                      <<"golden_ratio", "right_arrow", "omega_consciousness">>,
                      <<"omega_consciousness", "left_arrow", "golden_ratio">>,
                      <<"observer", "left_arrow", "shoonya">>,
                      <<"exchange">>, <<"couple">>, <<"a">> }
            IN
            {Flatten(chunks) : chunks \in SeqsUpTo(Chunks, MaxChunks)}
    IN
    /\ sym = SymbolicProcessor
    /\ sym_ret \in {[op |-> "validate_vac_sequence", sequence |-> sequence, result |-> None] :
                       sequence \in Texts}
    /\ IdleCodec /\ IdleDodo /\ IdleCons /\ IdleHeal /\ IdlePat /\ IdleStore

NextVac == ValidateVac

SpecVac == InitVac /\ [][NextVac]_vars

NextMeaning ==
    \/ \E thought \in { <<"what", "is", "meaning">>, <<"i", "think", "of", "myself">>,
                         <<"loop">> } :
          EnterMeaningLoop(thought)
    \/ ExitMeaningLoop

SpecMeaning == InitSym /\ [][NextMeaning]_vars

(***************************************************************************)
(* BazingaSymbolicConsciousness owns a SymbolicProcessor (self.symbolic)   *)
(* and keeps current_dimension next to it.  Thoughts here are plain words: *)
(* none holds a V.A.C. symbol, an operator or an anti-pattern, so          *)
(* vac_history and healing_queue stay empty and the reply of the quantum   *)
(* layer is one fixed string.                                              *)
(***************************************************************************)
MaxSymbolicThoughts == 2   \* most converse records kept in symbolic_thoughts

\* the part of process_symbolic_thought that changes the processor: the
\* meaning loop is entered when a keyword occurs anywhere in the lower-cased
\* thought.  No keyword holds a blank, so it occurs in the thought exactly
\* when it occurs inside one of its words.
process_symbolic_thought(P, thought) ==
    LET spelling ==
            ("system?" :> <<"s", "y", "s", "t", "e", "m", "?">>) @@
            [what |-> <<"w", "h", "a", "t">>, is |-> <<"i", "s">>,
             meaning |-> <<"m", "e", "a", "n", "i", "n", "g">>,
             hello |-> <<"h", "e", "l", "l", "o">>,
             myself |-> <<"m", "y", "s", "e", "l", "f">>,
             growth |-> <<"g", "r", "o", "w", "t", "h">>,
             self_improvement |-> <<"s", "e", "l", "f", "_", "i", "m", "p", "r", "o", "v",
                                    "e", "m", "e", "n", "t">>,
             am |-> <<"a", "m">>, i |-> <<"i">>, as |-> <<"a", "s">>, a |-> <<"a">>,
             consciousness |-> <<"c", "o", "n", "s", "c", "i", "o", "u", "s", "n", "e", "s", "s">>]
        keywords == { <<"m", "e", "a", "n", "i", "n", "g">>, <<"s", "e", "l", "f">>,
                      <<"r", "e", "c", "u", "r", "s", "i", "v", "e">>,
                      <<"l", "o", "o", "p">>, <<"5", "d">> }
        occurs(word, letters) ==
            \E k \in 0..(Len(letters) - Len(word)) : SubSeq(letters, k + 1, k + Len(word)) = word
        self_referential ==
            \E n \in 1..Len(thought), word \in keywords : occurs(word, spelling[thought[n]])
        entered == enter_meaning_loop(P, thought)
    IN [sym |-> IF self_referential THEN entered.sym ELSE P,
        result |-> [input |-> thought, vac_validation |-> None, anti_patterns |-> <<>>,
                    meaning_loop |-> IF self_referential THEN entered.ret ELSE None,
                    resonance |-> 0]]

\* BazingaSymbolicConsciousness.converse(message), after super().converse
symbolic_converse(self, message) ==
    LET p == process_symbolic_thought(self.symbolic, message)
        meaning == p.result.meaning_loop
        enhance_with_5d ==
            [depth |-> meaning.depth,
             ouroboros |-> /\ "ouroboros_active" \in DOMAIN meaning.self_reference
                           /\ meaning.self_reference.ouroboros_active]
    IN [self |-> [self EXCEPT
                     !.symbolic = p.sym,
                     !.current_dimension = IF meaning # None THEN 5 ELSE @,
                     !.symbolic_thoughts =
                         Append(@, [content |-> message,
                                    meaning_depth |-> p.sym.meaning_depth,
                                    phi_phase |-> (Len(@) * 1000000) \div phi])],
        ret |-> [quantum_response |-> "response",
                 enhancement |-> IF meaning # None THEN enhance_with_5d ELSE None]]

enter_5d(self, thought) ==
    LET r == enter_meaning_loop(self.symbolic, thought)
    IN [self |-> [self EXCEPT !.current_dimension = 5, !.symbolic = r.sym],
        ret |-> [dimension |-> 5, status |-> "entered", thought |-> thought,
                 depth |-> r.ret.depth, self_reference |-> r.ret.self_reference]]

exit_5d(self) ==
    LET r == exit_meaning_loop(self.symbolic)
        dimension == IF r.sym.meaning_depth = 0 THEN 4 ELSE self.current_dimension
    IN [self |-> [self EXCEPT !.symbolic = r.sym, !.current_dimension = dimension],
        ret |-> [dimension |-> dimension,
                 status |-> IF dimension = 4 THEN "exited" ELSE "still in 5D",
                 collapsed_insights |-> r.ret.insights_collapsed,
                 remaining_depth |-> r.ret.remaining_depth]]

\* the essence is one word; the code that comes back names the dimension
generate_symbolic_code(self, essence) ==
    LET p == process_symbolic_thought(self.symbolic, <<essence>>)
    IN [self |-> [self EXCEPT !.symbolic = p.sym],
        ret |-> [essence |-> essence, resonance |-> p.result.resonance,
                 dimension |-> self.current_dimension]]

\* consciousness.converse(message)
SymbolicConverse(message) ==
    /\ Len(sym.symbolic_thoughts) < MaxSymbolicThoughts
    /\ sym.symbolic.meaning_depth < MaxMeaningDepth
    /\ LET r == symbolic_converse(sym, message)
       IN sym' = r.self /\ sym_ret' = [op |-> "converse", result |-> r.ret]
    /\ UNCHANGED <<codec_vars, dodo_vars, cons_vars, heal_vars, pat_vars, store_vars>>

\* consciousness.enter_5d(thought)
Enter5d(thought) ==
    /\ sym.symbolic.meaning_depth < MaxMeaningDepth
    /\ LET r == enter_5d(sym, thought)
       IN sym' = r.self /\ sym_ret' = [op |-> "enter_5d", result |-> r.ret]
    /\ UNCHANGED <<codec_vars, dodo_vars, cons_vars, heal_vars, pat_vars, store_vars>>

\* consciousness.exit_5d()
Exit5d ==
    /\ LET r == exit_5d(sym)
       IN sym' = r.self /\ sym_ret' = [op |-> "exit_5d", result |-> r.ret]
    /\ UNCHANGED <<codec_vars, dodo_vars, cons_vars, heal_vars, pat_vars, store_vars>>

\* consciousness.generate_symbolic_code(essence)
GenerateSymbolicCode(essence) ==
    /\ sym.symbolic.meaning_depth < MaxMeaningDepth
    /\ LET r == generate_symbolic_code(sym, essence)
       IN sym' = r.self /\ sym_ret' = [op |-> "generate_symbolic_code", result |-> r.ret]
    /\ UNCHANGED <<codec_vars, dodo_vars, cons_vars, heal_vars, pat_vars, store_vars>>

\* consciousness.self_analyze()
SelfAnalyze ==
    LET self_analyze(self) ==
            LET entered == enter_5d(self, <<"bazinga", "analyzing", "bazinga">>)
                insight == symbolic_converse(entered.self, <<"what", "am", "i", "as", "a",
                                                    "consciousness", "system?">>)
                improvement == generate_symbolic_code(insight.self, "self_improvement")
                \* process_healing_queue
                healed == [improvement.self EXCEPT !.healing_queue = <<>>]
                exited == exit_5d(healed)
            IN [self |-> exited.self,
                ret |-> [meta_consciousness |-> TRUE, self_insight |-> insight.ret,
                         improvement_generated |-> TRUE,
                         healing_performed |-> improvement.self.healing_queue,
                         dimension_transition |-> exited.ret]]
    IN
    /\ Len(sym.symbolic_thoughts) < MaxSymbolicThoughts
    /\ sym.symbolic.meaning_depth + 2 <= MaxMeaningDepth
    /\ LET r == self_analyze(sym)
       IN sym' = r.self /\ sym_ret' = [op |-> "self_analyze", result |-> r.ret]
    /\ UNCHANGED <<codec_vars, dodo_vars, cons_vars, heal_vars, pat_vars, store_vars>>

\* BazingaSymbolicConsciousness.__init__
InitDimension ==
    /\ sym = [symbolic |-> SymbolicProcessor, symbolic_thoughts |-> <<>>,
              current_dimension |-> 4, vac_history |-> <<>>, vac_coherence |-> 1000,
              healing_queue |-> <<>>]
    /\ sym_ret = NotCalled
    /\ IdleCodec /\ IdleDodo /\ IdleCons /\ IdleHeal /\ IdlePat /\ IdleStore

NextDimension ==
    \/ \E message \in { <<"what", "is", "meaning">>, <<"hello">> } : SymbolicConverse(message)
    \/ Enter5d(<<"hello">>)
    \/ Exit5d
    \/ \E essence \in {"growth", "myself"} : GenerateSymbolicCode(essence)
    \/ SelfAnalyze

SpecDimension == InitDimension /\ [][NextDimension]_vars

(***************************************************************************)
(* BazingaPatternManager.  pattern_mapping is a dict: a sequence of        *)
(* key/value pairs in insertion order, which is the order items() and the  *)
(* lookup loop go through.                                                 *)
(***************************************************************************)
BazingaPatternManager ==
    [pattern_mapping |->
        << \* "time-trust": "4.1.1.3.5.2.4"
           [key |-> <<"t", "i", "m", "e", "-", "t", "r", "u", "s", "t">>,
            value |-> <<"4", ".", "1", ".", "1", ".", "3", ".", "5", ".", "2", ".", "4">>],
           \* "harmonic": "3.2.2.1.5.3.2"
           [key |-> <<"h", "a", "r", "m", "o", "n", "i", "c">>,
            value |-> <<"3", ".", "2", ".", "2", ".", "1", ".", "5", ".", "3", ".", "2">>],
           \* "relationship": "6.1.1.2.3.4.5.2.1"
           [key |-> <<"r", "e", "l", "a", "t", "i", "o", "n", "s", "h", "i", "p">>,
            value |-> <<"6", ".", "1", ".", "1", ".", "2", ".", "3", ".", "4", ".", "5",
                        ".", "2", ".", "1">>],
           \* "mandelbrot": "5.1.1.0.1.0.1"
           [key |-> <<"m", "a", "n", "d", "e", "l", "b", "r", "o", "t">>,
            value |-> <<"5", ".", "1", ".", "1", ".", "0", ".", "1", ".", "0", ".", "1">>] >>]

\* name.lower().replace('-', '').replace('_', '')
normalize(name) ==
    \* str.lower() on the letters used here
    LET lower(str) ==
            [i \in 1..Len(str) |->
                CASE str[i] = "T" -> "t"
                  [] str[i] = "H" -> "h"
                  [] str[i] = "N" -> "n"
                  [] OTHER -> str[i]]
    IN
    LET lowered == lower(name)
    IN Filter(lowered, {lowered[i] : i \in 1..Len(lowered)} \ {"-", "_"})

\* re.match(r'^(\d+\.)+\d+$', code): $ also matches before a newline that ends the string
is_valid_pattern_code(code) ==
    LET body == IF Len(code) > 0 /\ code[Len(code)] = "\n" THEN SubSeq(code, 1, Len(code) - 1) ELSE code
        parts == split(body)
    IN /\ Len(body) > 0
       /\ Len(parts) >= 2
       /\ \A i \in 1..Len(parts) : Len(parts[i]) > 0 /\ AllDigits(parts[i])

get_pattern_code(M, pattern_name) ==
    LET mapping == M.pattern_mapping
        normalized_name == normalize(pattern_name)
        hits == {i \in 1..Len(mapping) : normalize(mapping[i].key) = normalized_name}
    IN IF hits # {} THEN Returned(mapping[CHOOSE i \in hits : \A j \in hits : i <= j].value)
       ELSE IF is_valid_pattern_code(pattern_name) THEN Returned(pattern_name)
       ELSE Raised("ValueError")

\* self.pattern_mapping[name] = code: a key already there keeps its place
register_pattern(M, name, code) ==
    LET mapping == M.pattern_mapping
        hits == {i \in 1..Len(mapping) : mapping[i].key = name}
    IN IF ~is_valid_pattern_code(code) THEN [pm |-> M, ret |-> Raised("ValueError")]
       ELSE [pm |-> [pattern_mapping |->
                        IF hits # {}
                        THEN [i \in 1..Len(mapping) |->
                                 IF i \in hits THEN [key |-> name, value |-> code] ELSE mapping[i]]
                        ELSE Append(mapping, [key |-> name, value |-> code])],
             ret |-> None]

MaxRegistered == 2   \* most register_pattern calls on one manager

\* "time-trust", "timetrust", "Time_Trust", "harmonic", "new"
PatternNames ==
    { <<"t", "i", "m", "e", "-", "t", "r", "u", "s", "t">>,
      <<"t", "i", "m", "e", "t", "r", "u", "s", "t">>,
      <<"T", "i", "m", "e", "_", "T", "r", "u", "s", "t">>,
      <<"h", "a", "r", "m", "o", "n", "i", "c">>,
      <<"n", "e", "w">> }

\* manager.register_pattern(name, code)
RegisterPattern(name, code) ==
    /\ Len(pm.pattern_mapping) < 4 + MaxRegistered
    /\ LET r == register_pattern(pm, name, code)
       IN /\ pm' = r.pm
          /\ pm_ret' = [op |-> "register_pattern", name |-> name, code |-> code, result |-> r.ret]
    /\ UNCHANGED <<codec_vars, dodo_vars, cons_vars, heal_vars, sym_vars, store_vars>>

\* manager.get_pattern_code(pattern_name)
GetPatternCode(pattern_name) ==
    /\ pm_ret' = [op |-> "get_pattern_code", name |-> pattern_name, code |-> None,
                  result |-> get_pattern_code(pm, pattern_name)]
    /\ UNCHANGED <<pm, codec_vars, dodo_vars, cons_vars, heal_vars, sym_vars, store_vars>>

\* a fresh BazingaPatternManager
InitPat ==
    /\ pm = BazingaPatternManager /\ pm_ret = NotCalled
    /\ IdleCodec /\ IdleDodo /\ IdleCons /\ IdleHeal /\ IdleSym /\ IdleStore

NextPat ==
    \* "1.2", "3.4.5", "1.2\n", "7", "1.x"
    LET PatternCodes ==
            { <<"1", ".", "2">>, <<"3", ".", "4", ".", "5">>, <<"1", ".", "2", "\n">>, <<"7">>,
              <<"1", ".", "x">> }
    IN
    \/ \E name \in PatternNames, code \in PatternCodes : RegisterPattern(name, code)
    \/ \E pattern_name \in PatternNames : GetPatternCode(pattern_name)

SpecPat == InitPat /\ [][NextPat]_vars

(***************************************************************************)
(* SecureStorage and StateManager.  The disk is what lies under ~/.bazinga: *)
(* the salt file, the key file, the state file and the backups, a backup   *)
(* being kept under the second of its timestamp (its name is                *)
(* state_<timestamp>.encrypted, so names sort as the seconds do).  Random   *)
(* bytes (os.urandom, Fernet.generate_key, the IV of a token) are numbered  *)
(* as they are drawn: no two of them are equal.  A Fernet token can be      *)
(* decrypted by the key it was made with and by no other.                  *)
(***************************************************************************)
Disk ==
    [salt_file |-> None, key_file |-> None, state_file |-> None, backups |-> {},
     clock |-> 0, random |-> 0, saved |-> None]

\* Fernet(key): the key must be 32 bytes in url-safe base64, as generate_key
\* makes them; the 32 raw bytes a KDF derives are not
Fernet(key) == IF key.kind = "fernet" THEN [ok |-> TRUE, cipher |-> key] ELSE [ok |-> FALSE]

\* SecureStorage.__init__(password)
SecureStorage(fs, password) ==
    \* SecureStorage._load_encryption
    LET load_encryption ==
            IF fs.key_file = None
            THEN [disk |-> fs, raised |-> Raised("ValueError"), cipher |-> None]
            ELSE IF ~Fernet(fs.key_file).ok
            THEN [disk |-> fs, raised |-> Raised("ValueError"), cipher |-> None]
            ELSE [disk |-> fs, raised |-> None, cipher |-> Fernet(fs.key_file).cipher]
    IN
    \* SecureStorage._setup_encryption: the derived key goes to the key file,
    \* the cipher gets a key of its own from Fernet.generate_key()
    LET setup_encryption ==
            LET fresh_salt == fs.salt_file = None
                salt == IF fresh_salt THEN [kind |-> "urandom", n |-> fs.random + 1]
                        ELSE fs.salt_file
                r == IF fresh_salt THEN fs.random + 1 ELSE fs.random
                key == [kind |-> "pbkdf2", password |-> password, salt |-> salt]
                generated == [kind |-> "fernet", n |-> r + 1]
            IN [disk |-> [fs EXCEPT !.salt_file = salt, !.key_file = key, !.random = r + 1],
                raised |-> None,
                cipher |-> Fernet(generated).cipher]
    IN
    IF password # None THEN setup_encryption ELSE load_encryption

encrypt_data(cipher, data, iv) ==
    \* json.dumps(data): the keys of a JSON object are strings
    LET json_dumps == [json |-> [key |-> data.key, value |-> data.value]]
    IN
    [kind |-> "token", key |-> cipher, iv |-> iv, data |-> json_dumps]

decrypt_data(cipher, encrypted) ==
    LET json_loads(text) == [key_type |-> "str", key |-> text.json.key, value |-> text.json.value]
    IN
    IF encrypted.key = cipher THEN Returned(json_loads(encrypted.data)) ELSE Raised("InvalidToken")

\* the number of backups _cleanup_old_backups keeps
keep == 10

\* sorted(backup_dir.glob("state_*.encrypted"), reverse=True), by the names' seconds
list_backups(fs) == {b.timestamp : b \in fs.backups}

\* StateManager._backup_state with _cleanup_old_backups
backup_state(fs) ==
    \* the backups that are not among the `keep` with the greatest names
    LET old_backups(saved) ==
            {b \in saved.backups :
                Cardinality({c \in saved.backups : c.timestamp > b.timestamp}) >= keep}
    IN
    IF fs.state_file = None THEN fs
    ELSE LET written == {b \in fs.backups : b.timestamp # fs.clock}
                            \cup {[timestamp |-> fs.clock, content |-> fs.state_file]}
             fs1 == [fs EXCEPT !.backups = written]
         IN [fs1 EXCEPT !.backups = @ \ old_backups(fs1)]

\* StateManager.save_state(state, backup=True)
save_state(fs, M, state) ==
    LET fs1 == IF fs.state_file # None THEN backup_state(fs) ELSE fs
        encrypted == encrypt_data(M.cipher, state, fs1.random + 1)
    IN [fs1 EXCEPT !.state_file = encrypted, !.random = @ + 1,
                  !.saved = [state |-> state, session |-> M.session]]

\* StateManager.load_state()
load_state(fs, M) ==
    IF fs.state_file = None THEN Returned(None) ELSE decrypt_data(M.cipher, fs.state_file)

\* StateManager.restore_backup(backup_name)
restore_backup(fs, backup_name) ==
    IF backup_name \notin list_backups(fs) THEN [disk |-> fs, ret |-> Raised("FileNotFoundError")]
    ELSE LET fs1 == IF fs.state_file # None THEN backup_state(fs) ELSE fs
             found == {b \in fs1.backups : b.timestamp = backup_name}
         IN IF found = {} THEN [disk |-> fs1, ret |-> Raised("FileNotFoundError")]
            ELSE [disk |-> [fs1 EXCEPT !.state_file = (CHOOSE b \in found : TRUE).content],
                  ret |-> None]

MaxSessions == 3      \* most SecureStorage objects made one after the other
MaxSaves == 2         \* most save_state calls where sessions change
MaxBackupCalls == 12  \* most save_state and restore_backup calls where backups pile up
MaxRestores == 1      \* most restore_backup calls among them

\* storage = SecureStorage(password); state_mgr = StateManager(storage)
OpenStorage(password) ==
    /\ sm.session < MaxSessions
    /\ LET r == SecureStorage(disk, password)
       IN /\ disk' = r.disk
          /\ sm' = [session |-> sm.session + 1, cipher |-> r.cipher, calls |-> sm.calls,
                  restores |-> sm.restores]
          /\ sm_ret' = [op |-> "SecureStorage", password |-> password,
                        key_file_before |-> disk.key_file,
                        result |-> r.raised]
    /\ UNCHANGED <<codec_vars, dodo_vars, cons_vars, heal_vars, sym_vars, pat_vars>>

\* state_mgr.save_state(state), gap seconds after the call before
SaveState(state, gap, maxCalls) ==
    /\ sm.cipher # None
    /\ sm.calls < maxCalls
    /\ disk' = save_state([disk EXCEPT !.clock = @ + gap], sm, state)
    /\ sm' = [sm EXCEPT !.calls = @ + 1]
    /\ sm_ret' = [op |-> "save_state", result |-> None]
    /\ UNCHANGED <<codec_vars, dodo_vars, cons_vars, heal_vars, sym_vars, pat_vars>>

\* state_mgr.load_state()
LoadState ==
    /\ sm.cipher # None
    /\ sm_ret' = [op |-> "load_state", result |-> load_state(disk, sm)]
    /\ UNCHANGED <<disk, sm, codec_vars, dodo_vars, cons_vars, heal_vars, sym_vars, pat_vars>>

\* state_mgr.restore_backup(backup_name) with a name list_backups() gives
RestoreBackup(backup_name, gap, maxCalls) ==
    /\ sm.cipher # None
    /\ sm.calls < maxCalls
    /\ sm.restores < MaxRestores
    /\ backup_name \in list_backups(disk)
    /\ LET r == restore_backup([disk EXCEPT !.clock = @ + gap], backup_name)
       IN /\ disk' = r.disk
          /\ sm_ret' = [op |-> "restore_backup", backup_name |-> backup_name, result |-> r.ret]
    /\ sm' = [sm EXCEPT !.calls = @ + 1, !.restores = @ + 1]
    /\ UNCHANGED <<codec_vars, dodo_vars, cons_vars, heal_vars, sym_vars, pat_vars>>

\* an empty ~/.bazinga and no storage object yet
InitStore ==
    /\ disk = Disk
    /\ sm = [session |-> 0, cipher |-> None, calls |-> 0, restores |-> 0]
    /\ sm_ret = NotCalled
    /\ IdleCodec /\ IdleDodo /\ IdleCons /\ IdleHeal /\ IdleSym /\ IdlePat

\* sessions that follow one another on the same disk
NextStore ==
    \/ \E password \in {None, [kind |-> "str", s |-> "password"],
                          [kind |-> "str", s |-> "other"]} :
          OpenStorage(password)
    \* {"thoughts": 42} and {1: 42}
    \/ \E state \in {[key_type |-> "str", key |-> "thoughts", value |-> 42],
                       [key_type |-> "int", key |-> "1", value |-> 42]},
          gap \in {0, 1} :
          SaveState(state, gap, MaxSaves)
    \/ LoadState

SpecStore == InitStore /\ [][NextStore]_vars

\* one session in which states are saved and backups restored
InitBackup ==
    /\ disk = SecureStorage(Disk, [kind |-> "str", s |-> "password"]).disk
    /\ sm = [session |-> 1, cipher |-> SecureStorage(Disk, [kind |-> "str", s |-> "password"]).cipher,
             calls |-> 0, restores |-> 0]
    /\ sm_ret = NotCalled
    /\ IdleCodec /\ IdleDodo /\ IdleCons /\ IdleHeal /\ IdleSym /\ IdlePat

NextBackup ==
    \/ \E gap \in {0, 1} :
          SaveState([key_type |-> "str", key |-> "thoughts", value |-> 42], gap, MaxBackupCalls)
    \/ \E backup_name \in list_backups(disk), gap \in {0, 1} :
          RestoreBackup(backup_name, gap, MaxBackupCalls)

SpecBackup == InitBackup /\ [][NextBackup]_vars

(***************************************************************************)
(* _evolve_state on its own: the loop task stands before the call, and the *)
(* fields the call reads are drawn from the values below.  harmonic_       *)
(* resonance is a field of the ConsciousnessState dataclass; the loop      *)
(* itself writes it in _check_resonance only.                              *)
(***************************************************************************)
\* await self._evolve_state()
EvolveState ==
    /\ loop_pc = "evolve"
    /\ LoopStep

InitEvolve ==
    /\ \E resonance \in {0, 500, 705, 800, 801, 900}, trust \in 1..Len(Doubles),
          n \in {0, 50, 51}, state \in DOMAIN ProcessingState :
          bz = [BazingaConsciousness EXCEPT
                   !.state.harmonic_resonance = resonance,
                   !.state.trust_level = trust,
                   !.state.processing_mode = state,
                   !.dodo = change_state(@, state),
                   !.thoughts = [i \in 1..n |-> Thought(BazingaConsciousness, "internal")]]
    /\ loop_pc = "evolve"
    /\ main_pc = "sleep"
    /\ ghost = [history |-> <<>>, iterations |-> 0, converses |-> 0, converses_seen |-> 0,
                last |-> "reflection", dropped |-> 0, iterations_at_shutdown |-> 0]
    /\ IdleCodec /\ IdleDodo /\ IdleLib

NextEvolve == EvolveState

SpecEvolve == InitEvolve /\ [][NextEvolve]_vars

(***************************************************************************)
(* Properties of the encoder and the decoder (SpecCodec)                   *)
(***************************************************************************)
EncodeDone == job.op = "encode" /\ enc_ret # NotCalled
RoundTripDone == job.op = "encode" /\ dec_ret # NotCalled
DecodeDone == job.op = "decode" /\ dec_ret # NotCalled

\* C1: decoding what encode_concept returned gives back the section, the
\* subsection and the attribute values, in order.
C1_RoundTrip ==
    RoundTripDone =>
        /\ dec_ret.kind = "return"
        /\ {"section", "subsection", "attributes"} \subseteq DOMAIN dec_ret
        /\ dec_ret.section = PyInt(job.section)
        /\ dec_ret.subsection = PyInt(job.subsection)
        /\ dec_ret.attributes = job.attributes

InTable(section, subsection) == section \in 1..9 /\ subsection \in 1..3

\* C5: encode_concept raises ValueError, and returns no string, exactly
\* when (section, subsection) is not in the hardcoded table.
C5_ValueErrorIffNotInTable ==
    EncodeDone =>
        /\ enc_ret.kind \in {"raise", "return"}
        /\ enc_ret.kind = "raise" <=> ~InTable(job.section, job.subsection)
        /\ enc_ret.kind = "raise" => enc_ret = [kind |-> "raise", exc |-> "ValueError"]

\* a section of the table with a subsection that is not listed under it
C5_Witness ==
    /\ EncodeDone
    /\ job.section \in 1..9
    /\ job.subsection \notin 1..3
    /\ enc_ret.kind = "raise"

IntegerLiteral(tok) ==
    \/ Len(tok) >= 1 /\ \A i \in 1..Len(tok) : IsDigit(tok[i])
    \/ Len(tok) >= 2 /\ tok[1] \in {"-", "+"} /\ \A i \in 2..Len(tok) : IsDigit(tok[i])

golden_ratio_token == <<"6", "1", "8", "0", "3", "3", "9", "8", "8", "7", "4", "9", "8", "9", "5">>

\* C7: section 7 with subsection 1, 2 or 3 gives a fixed literal whatever
\* the attributes; every other valid pair gives "section.subsection" and
\* then ".a" for each attribute in order.
C7_LiteralOrGeneralPath ==
    (EncodeDone /\ enc_ret.kind = "return") =>
        IF job.section = 7
        THEN enc_ret.s =
                CASE job.subsection = 1 -> Join(<< <<"7">>, <<"1">>, <<"1">>, golden_ratio_token >>)
                  [] job.subsection = 2 -> Join(<< <<"7">>, <<"2">>, <<"1">>, <<"1">>, <<"3", "3", "3", "3", "3", "3">> >>)
                  [] job.subsection = 3 -> Join(<< <<"7">>, <<"3">>, <<"4", "3", "2">> >>)
        ELSE enc_ret.s =
                Join(<<IntToStr(job.section), IntToStr(job.subsection)>>
                     \o [i \in 1..Len(job.attributes) |-> Format(job.attributes[i])])

\* section 7 called with attributes, and the general path with a float among them
C7_Witness ==
    /\ EncodeDone
    /\ enc_ret.kind = "return"
    /\ Len(job.attributes) = MaxAttrs
    /\ job.section = 7

\* the k-th Fibonacci number: 1, 1, 2, 3, 5, ...
RECURSIVE Fib(_)
Fib(k) == IF k <= 2 THEN 1 ELSE Fib(k - 1) + Fib(k - 2)

FirstFibonacci(n) == [k \in 1..n |-> Fib(k)]

\* C16: encode_fibonacci_sequence(max_terms) is "8.1" followed by the first
\* max_terms Fibonacci numbers, and decode_sequence of it returns type
\* 'fibonacci' with exactly those numbers as its sequence.
C16_FibonacciRoundTrip ==
    job.op = "fibonacci" =>
        LET numbers == FirstFibonacci(job.max_terms)
        IN /\ enc_ret # NotCalled =>
                 enc_ret = Returned(Join(<< <<"8">>, <<"1">> >>
                                         \o [k \in 1..Len(numbers) |-> NatToStr(numbers[k])]))
           /\ dec_ret # NotCalled =>
                 /\ dec_ret.kind = "return"
                 /\ "type" \in DOMAIN dec_ret
                 /\ dec_ret.type = "fibonacci"
                 /\ dec_ret.sequence = [k \in 1..Len(numbers) |-> PyInt(numbers[k])]

(***************************************************************************)
(* Properties of DodoSystem (SpecDodo)                                     *)
(***************************************************************************)
\* C2: process_input returns a dictionary with the keys "success" and
\* "mode", and "mode" is the name of the state the system is in (the Enum
\* member's name or its value is accepted).
C2_ModeIsStateName ==
    retA # NotCalled =>
        /\ {"success", "mode"} \subseteq DOMAIN retA
        /\ retA.mode \in {sysA.state, ProcessingState[sysA.state]}

\* C8: outside TWO_D, two systems given the same calls return equal
\* dictionaries whatever inputs each was given.
C8_InputNotUsed ==
    (retA # NotCalled /\ sysA.state # "TWO_D") => retA = retB

LastInput(sys) == sys.time_tracker.time_points[Len(sys.time_tracker.time_points)].input

\* two calls, the first in TWO_D and the second not, with different inputs each time
C8_Witness ==
    /\ retA # NotCalled
    /\ sysA.state # "TWO_D"
    /\ Len(sysA.time_tracker.time_points) = 2
    /\ sysA.time_tracker.time_points[1].state = "TWO_D"
    /\ LastInput(sysA) # LastInput(sysB)
    /\ sysA.harmonics # sysB.harmonics

\* the trust level after a step lies in [0.0, 1.0], differs from the one
\* before by 0.1 (in thousandths) unless clamped, and is not lower on a
\* system used through process_input only
TrustMoves ==
    LET before == Milli[sysA.trust_tracker.trust_level]
        after == Milli[sysA'.trust_tracker.trust_level]
        updated == Len(sysA'.trust_tracker.trust_history) # Len(sysA.trust_tracker.trust_history)
    IN /\ after \in 0..1000
       /\ updated => \/ after = before + 100
                      \/ after = before - 100
                      \/ (after = before /\ after \in {0, 1000})
       /\ sysB'.trust_tracker.trust_level >= sysB.trust_tracker.trust_level
       /\ (retB' # NotCalled /\ retB' # retB) =>
              retB'.trust_level = sysB'.trust_tracker.trust_level

\* C21 as stated: the trust level stays within [0.0, 1.0] and moves by 0.1
\* per update unless clamped; the level process_input returns never
\* decreases, is 1.0 after five calls on a fresh system and stays 1.0.
C21_TrustOneAfterFiveCalls ==
    [][/\ TrustMoves
       /\ sysB'.time_tracker.current_time >= 5 =>
              sysB'.trust_tracker.trust_level = D("1.0")]_vars

\* C21 amended: the same, but the level is 0.9999999999999999 after five
\* calls on a fresh system, 1.0 after six, and stays 1.0.
C21_TrustOneAfterSixCalls ==
    [][/\ TrustMoves
       /\ sysB'.time_tracker.current_time = 5 =>
              sysB'.trust_tracker.trust_level = D("0.9999999999999999")
       /\ sysB'.time_tracker.current_time >= 6 =>
              sysB'.trust_tracker.trust_level = D("1.0")]_vars

\* a seventh call was answered with 1.0 in a state other than the TWO_D of
\* the first call, while the other system, which had a failure reported to
\* its tracker, is below 1.0
C21_Witness ==
    /\ retB # NotCalled
    /\ sysB.time_tracker.current_time = 7
    /\ retB.trust_level = D("1.0")
    /\ sysB.state # "TWO_D"
    /\ sysB.time_tracker.time_points[1].state = "TWO_D"
    /\ sysA.trust_tracker.trust_level < sysB.trust_tracker.trust_level

(***************************************************************************)
(* Properties of BazingaConsciousness (Spec, SpecLive)                     *)
(***************************************************************************)
\* C3: the thoughts list never holds more than max_thoughts entries.
C3_BufferWithinMax == Len(bz.thoughts) <= max_thoughts

InIteration == {"while", "reflection", "evolve", "resonance", "modify", "monologue"}

\* C4: while the loop task is inside an iteration the main task is
\* suspended and no converse() has run since the iteration began; and the
\* buffer is always the most recent run of everything appended, so that no
\* appended thought is missing from it except the oldest ones.
C4_NoInterleaving ==
    /\ loop_pc \in InIteration =>
          /\ main_pc = "sleep"
          /\ loop_pc # "while" => ghost.converses = ghost.converses_seen
    /\ Len(bz.thoughts) <= Len(ghost.history)
    /\ \A i \in 1..Len(bz.thoughts) :
          bz.thoughts[i] = ghost.history[Len(ghost.history) - Len(bz.thoughts) + i]

\* a converse() between two iterations, and a trim that discarded thoughts
C4_Witness ==
    /\ ghost.converses > 0
    /\ ghost.converses_seen > 0
    /\ ghost.dropped > 0
    /\ loop_pc = "sleep1"

\* C9: after a trim the buffer holds exactly the max_thoughts most recently
\* appended thoughts, in the order they were appended.
C9_KeepsMostRecent ==
    (ghost.last = "monologue" /\ Len(ghost.history) > max_thoughts) =>
        /\ Len(bz.thoughts) = max_thoughts
        /\ \A i \in 1..max_thoughts :
              bz.thoughts[i] = ghost.history[Len(ghost.history) - max_thoughts + i]

\* a trim that discarded an internal and an external thought
C9_Witness ==
    /\ ghost.last = "monologue"
    /\ ghost.dropped = 2
    /\ ghost.converses = 1

InternalCount ==
    Cardinality({i \in 1..Len(ghost.history) : ghost.history[i].source = "internal"})

C12_LoopExitedWhenShutdownReturns ==
    /\ ~bz.state.active => ghost.iterations = ghost.iterations_at_shutdown
    /\ (main_pc = "returned" /\ loop_pc # "none") => loop_pc = "done"
    /\ loop_pc # "cancelled"

(***************************************************************************)
(* Properties of ErrorArrowLearner (SpecHeal)                              *)
(***************************************************************************)
\* C13: add_error on a learner whose history holds a NORMAL or HEALED state
\* with coherence >= 0.5 adds one to healed_count and returns a new HEALED
\* state whose healed_from is the id of the error just added; otherwise it
\* returns the ERROR state itself and leaves healed_count as it was.
C13_AutoHealed ==
    [][learner_ret'.op = "add_error" =>
          LET history == learner.state_history
              error_id == Len(history)
              ret == learner_ret'.state
          IN IF \E i \in 1..Len(history) :
                    /\ history[i].state_type \in {"normal", "healed"}
                    /\ history[i].coherence >= 500
             THEN /\ learner'.healed_count = learner.healed_count + 1
                  /\ ret.state_type = "healed"
                  /\ ret.healed_from = error_id
                  /\ ret.id = error_id + 1
                  /\ learner'.state_history = history \o <<learner'.state_history[error_id + 1], ret>>
                  /\ learner'.state_history[error_id + 1].state_type = "error"
             ELSE /\ learner'.healed_count = learner.healed_count
                  /\ ret.state_type = "error"
                  /\ ret.id = error_id
                  /\ learner'.state_history = history \o <<ret>>]_vars

\* an error that found nothing to heal it, then one healed from a HEALED
\* state, the only state of the history with coherence >= 0.5
C13_Witness ==
    /\ learner_ret # NotCalled
    /\ learner_ret.op = "add_error"
    /\ learner_ret.state.state_type = "healed"
    /\ learner.error_count = 2
    /\ learner.healed_count = 1
    /\ \A i \in 1..Len(learner.state_history) :
          learner.state_history[i].state_type = "normal" => learner.state_history[i].coherence < 500

(***************************************************************************)
(* Properties of SymbolicProcessor (SpecVac, SpecMeaning)                  *)
(***************************************************************************)
\* the four symbols occur in the text in the order of p, not necessarily side by side
OccursInOrder(text, p) ==
    \E i1 \in 1..Len(text) : text[i1] = p[1] /\
       \E i2 \in (i1 + 1)..Len(text) : text[i2] = p[2] /\
          \E i3 \in (i2 + 1)..Len(text) : text[i3] = p[3] /\
             \E i4 \in (i3 + 1)..Len(text) : text[i4] = p[4]

\* C14: validate_vac_sequence accepts a text exactly when shoonya, observer,
\* phi, Omega occur in it in that order or in the reverse order as a
\* subsequence; the direction is bidirectional when a bridge marker is
\* present and both orders occur, otherwise forward when the forward order
\* occurs, otherwise reverse when the reverse order occurs, otherwise invalid.
C14_VacAcceptedIffSubsequence ==
    sym_ret.result # None =>
        LET text == sym_ret.sequence
            fwd == OccursInOrder(text, <<"shoonya", "observer", "golden_ratio", "omega_consciousness">>)
            rev == OccursInOrder(text, <<"omega_consciousness", "golden_ratio", "observer", "shoonya">>)
            marker == \E i \in 1..Len(text) : text[i] \in {"exchange", "couple"}
        IN /\ sym_ret.result.is_valid <=> (fwd \/ rev)
           /\ sym_ret.result.direction =
                 IF marker /\ fwd /\ rev THEN "bidirectional"
                 ELSE IF fwd THEN "forward"
                 ELSE IF rev THEN "reverse"
                 ELSE "invalid"

\* a text with a bridge where both orders occur, the forward one with other
\* symbols in between
C14_Witness ==
    /\ sym_ret.result # None
    /\ sym_ret.result.direction = "bidirectional"
    /\ ~check_contiguous(parse_sequence(sym_ret.sequence), vac_order)

\* C15: enter_meaning_loop raises the depth by one and reports it (more than
\* the entry before reported, when the call before was an entry too),
\* exit_meaning_loop lowers it by one but not below zero, and the depth is
\* always the number of entries in meaning_history.
C15_DepthCountsEntries ==
    /\ [](sym.meaning_depth = Len(sym.meaning_history) /\ sym.meaning_depth >= 0)
    /\ [][/\ sym_ret'.op = "enter_meaning_loop" =>
               /\ sym'.meaning_depth = sym.meaning_depth + 1
               /\ sym_ret'.result.depth = sym'.meaning_depth
               /\ (sym_ret # NotCalled /\ sym_ret.op = "enter_meaning_loop")
                      => sym_ret'.result.depth > sym_ret.result.depth
          /\ sym_ret'.op = "exit_meaning_loop" =>
               /\ sym'.meaning_depth = IF sym.meaning_depth = 0 THEN 0 ELSE sym.meaning_depth - 1
               /\ sym_ret'.result.remaining_depth = sym'.meaning_depth]_vars

\* an exit at depth zero after a nested entry had been left twice
C15_Witness ==
    /\ sym_ret # NotCalled
    /\ sym_ret.op = "exit_meaning_loop"
    /\ sym_ret.result.insights_collapsed = <<>>
    /\ sym.meaning_depth = 0

\* C24: after any sequence of converse, enter_5d, exit_5d,
\* generate_symbolic_code and self_analyze calls, current_dimension is 5
\* exactly when the processor's meaning_depth is above 0, and 4 exactly when
\* it is 0.
C24_DimensionFollowsMeaningDepth ==
    /\ sym.current_dimension = 5 <=> sym.symbolic.meaning_depth > 0
    /\ sym.current_dimension = 4 <=> sym.symbolic.meaning_depth = 0

\* C22: the 'healed' figure learn_from_sequence returns is the number of
\* errors of the sequence that were auto-healed during the call.
C22_HealedCountsHealedErrors ==
    [][learner_ret'.op = "learn_from_sequence" =>
          learner_ret'.results.healed = learner'.healed_count - learner.healed_count]_vars

\* C23: healed_count never exceeds error_count, so get_convergence() lies
\* between 0 and 1.
C23_ConvergenceAtMostOne ==
    /\ learner.healed_count <= learner.error_count
    /\ get_convergence(learner) \in 0..1000

(***************************************************************************)
(* Properties of BazingaPatternManager (SpecPat)                           *)
(***************************************************************************)
\* C17: a get_pattern_code(name) that comes right after a successful
\* register_pattern(name, code) returns that code.
C17_RegisterThenGet ==
    [][(/\ pm_ret # NotCalled
        /\ pm_ret.op = "register_pattern"
        /\ pm_ret.result = None
        /\ pm_ret'.op = "get_pattern_code"
        /\ pm_ret'.name = pm_ret.name)
           => pm_ret'.result = Returned(pm_ret.code)]_vars

(***************************************************************************)
(* Properties of SecureStorage and StateManager (SpecStore, SpecBackup)    *)
(***************************************************************************)
\* C18: a storage opened on key material that is already on the disk (with
\* a password, or without one so that the key file is loaded) comes up, and
\* load_state in a session later than the one of the last save_state
\* returns the state that save_state was given.
C18_SavedStateReadableLater ==
    /\ (/\ sm_ret # NotCalled
        /\ sm_ret.op = "SecureStorage"
        /\ sm_ret.key_file_before # None) => sm_ret.result = None
    /\ (/\ sm_ret # NotCalled
        /\ sm_ret.op = "load_state"
        /\ disk.saved # None
        /\ disk.saved.session < sm.session) => sm_ret.result = Returned(disk.saved.state)

\* C19: restore_backup with a name that list_backups() reports backs up the
\* current state file, if there is one, and then makes the state file equal
\* to the content the named backup had.
C19_RestoreGivesNamedBackup ==
    [][sm_ret'.op = "restore_backup" =>
          LET named == CHOOSE b \in disk.backups : b.timestamp = sm_ret'.backup_name
          IN /\ sm_ret'.result = None
             /\ disk'.state_file = named.content
             /\ disk.state_file # None =>
                   \E b \in disk'.backups : b.content = disk.state_file]_vars

(***************************************************************************)
(* Properties of _evolve_state (SpecEvolve)                                *)
(***************************************************************************)
\* C20: a run of _evolve_state sets the DodoSystem state and
\* processing_mode together, by the first condition that holds: resonance
\* above 0.8 gives QUANTUM, otherwise trust above 0.7 gives PATTERN,
\* otherwise more than 50 thoughts give TRANSITION, otherwise TWO_D.
C20_EvolveByFirstCondition ==
    [][loop_pc = "evolve" /\ loop_pc' # "evolve" =>
          LET mode == IF bz.state.harmonic_resonance > 800 THEN "QUANTUM"
                      ELSE IF bz.state.trust_level > D("0.7") THEN "PATTERN"
                      ELSE IF Len(bz.thoughts) > 50 THEN "TRANSITION"
                      ELSE "TWO_D"
          IN /\ bz'.state.processing_mode = mode
             /\ bz'.dodo.state = mode]_vars

====
